---- MODULE Spec2Model ----
(***************************************************************************)
(* TTS gateway: JWT issuance / validation (Gateway/rp_handler.py,          *)
(* Gateway/jwt_utils.py), request routing and backend forwarding with      *)
(* retries (Gateway/rp_handler.py, gateway/handler.py, gateway/main.py).   *)
(*                                                                         *)
(* Time is counted in whole hours since the epoch (UTC).  A dict is a      *)
(* function whose DOMAIN is the set of its keys; a message built with an   *)
(* f-string is the sequence of its pieces.                                 *)
(***************************************************************************)
EXTENDS Integers, Sequences, FiniteSets, TLC

VARIABLES
    env,        \* the deployment: host timezone, PyJWT release, environment variables
    now,        \* the UTC clock, hours
    held,       \* the token string the client holds (token service runs)
    prov,       \* where held comes from: who issued it, for whom, when
    vres,       \* result of the latest validation of held
    gw,         \* the gateway variant handling the current job
    job,        \* the current job's input dict
    pc,         \* position of the current job: idle, attempt, sleep, done
    attempt,    \* the retry loop's variable `attempt` (0-based)
    posts,      \* HTTP POSTs made to a backend in the current job
    validated,  \* validate_jwt_token reported valid = True in the current job
    start_time, \* the hour the current job was taken up
    ctx,        \* the handler's locals across the forwarder call
    lastOutcome,\* what the latest POST came back with
    allTimeouts,\* every POST of the current job so far raised Timeout
    trace,      \* the current job's POSTs and sleeps, in order
    forwarded,  \* what the forwarder returned to the handler (its `result`)
    resp,       \* the response returned for the current job
    workers,    \* jobs handled concurrently by one worker process, each with
                \* its handler's locals (concurrent runs)
    startup,    \* the module-level settings as loaded at import (concurrent runs)
    client      \* a SecureTTSClient, its clock and what its last call did

vars == <<env, now, held, prov, vres, gw, job, pc, attempt, posts, validated,
          start_time, ctx, lastOutcome, allTimeouts, trace, forwarded, resp,
          workers, startup, client>>

-----------------------------------------------------------------------------
(* Bounds of the model *)

MaxClock == 40
ClockStep == 12
MaxRetriesCfg == 3
MaxBearer == 2
MaxClientClock == 90
ClientClockStep == 30

(* Program constants *)

DefaultExpirationHours == 24
RETRY_ATTEMPTS == 3
DefaultMaxRetries == 3
TokenMinutes == 29

JWT_SECRET_KEY == "JWT_SECRET_KEY"
OtherKey == "some-other-key"
RpIssuer == "tts-gateway-v3"
MgrIssuer == "tts-gateway"

Users == {"u1", "alice"}
Roles == {"user", "admin"}

\* Host timezones, as the offset of local time from UTC in hours.
TzOffsets == {-12, -5, 0, 14}

\* PyJWT releases that differ in what jwt.decode checks:
\*   "1.x"  honours the options require_exp / require_iat, expires when exp < now
\*   "2.0"  ignores require_exp / require_iat (2.x reads options["require"]),
\*   "2.6"  as 2.0, and rejects an iat in the future and expires when exp <= now
PyJwtReleases == {"1.x", "2.0", "2.6"}

-----------------------------------------------------------------------------
(* dict helpers *)

Get(d, k, dflt) == IF k \in DOMAIN d THEN d[k] ELSE dflt

Has(d, k) == k \in DOMAIN d

EmptyDict == <<>>

\* dict.update: the entries of upd replace those of d
Update(d, upd) == upd @@ d

-----------------------------------------------------------------------------
(* Token strings.  A JWT is its signing key and its claims; a string that is
   no JWT is "garbage"; the field may also be absent/empty ("none") or hold a
   value that is no string ("nonstr"); the string after the prefix may be
   empty ("empty").  prefix is the number of copies of "Bearer " the string
   starts with. *)

NoToken == [kind |-> "none", prefix |-> 0, key |-> "", claims |-> EmptyDict]
Garbage == [kind |-> "garbage", prefix |-> 0, key |-> "", claims |-> EmptyDict]
NonStr == [kind |-> "nonstr", prefix |-> 0, key |-> "", claims |-> EmptyDict]
EmptyStr == [kind |-> "empty", prefix |-> 0, key |-> "", claims |-> EmptyDict]

Jwt(key, claims) == [kind |-> "jwt", prefix |-> 0, key |-> key, claims |-> claims]

\* the values 'Bearer ' can be written in front of
IsStr(t) == t.kind \in {"jwt", "garbage", "empty"}

\* `not token`: None or the empty string
NotToken(t) == t.kind = "none" \/ (t.kind = "empty" /\ t.prefix = 0)

\* 'Bearer ' + token
WithBearer(t) == [t EXCEPT !.prefix = @ + 1]

\* mutant: the prefix is left in place
StripBearer_Kept(t) == t

\* if token.startswith('Bearer '): token = token[7:]
StripBearer(t) == IF t.prefix > 0 THEN [t EXCEPT !.prefix = @ - 1] ELSE t

-----------------------------------------------------------------------------
(* jwt.decode(token, key, algorithms=[...], options={verify_signature,
   verify_exp, verify_iat, require_exp, require_iat}) of PyJWT: the segments
   are parsed, then the signature is verified, then the claims are checked
   (required claims, iat, exp).  No issuer= argument is passed, so iss is
   not looked at. *)

DecodeFail(exc, msg) == [ok |-> FALSE, exc |-> exc, msg |-> msg]

ExpiredAt(exp, t, release) == IF release = "2.6" THEN exp <= t ELSE exp < t

JwtDecode(t, key, t_now, release, verify_exp, require) ==
    IF t.kind # "jwt" \/ t.prefix # 0
    THEN DecodeFail("InvalidTokenError", "Not enough segments")
    ELSE IF t.key # key
    THEN DecodeFail("InvalidTokenError", "Signature verification failed")
    ELSE IF release = "1.x" /\ require /\ ~Has(t.claims, "exp")
    THEN DecodeFail("InvalidTokenError", "Token is missing the \"exp\" claim")
    ELSE IF release = "1.x" /\ require /\ ~Has(t.claims, "iat")
    THEN DecodeFail("InvalidTokenError", "Token is missing the \"iat\" claim")
    ELSE IF release = "2.6" /\ Has(t.claims, "iat") /\ t.claims.iat > t_now
    THEN DecodeFail("InvalidTokenError", "The token is not yet valid (iat)")
    ELSE IF verify_exp /\ Has(t.claims, "exp") /\ ExpiredAt(t.claims.exp, t_now, release)
    THEN DecodeFail("ExpiredSignatureError", "Signature has expired")
    ELSE [ok |-> TRUE, payload |-> t.claims]

-----------------------------------------------------------------------------
(* Gateway/rp_handler.py: token service *)

\* datetime.fromtimestamp(exp) < datetime.utcnow(): the left side is the
\* host's local wall time of exp, the right side the UTC wall time of now,
\* both naive.
AdditionalExpirationCheck(exp, t_now, tz) == exp + tz < t_now

\* mutant: jwt.decode with verify_signature off, any signing key passes
validate_jwt_token_NoSignatureCheck(token, t_now, e) ==
    IF NotToken(token)
    THEN [valid |-> FALSE, error |-> <<"JWT token is required for TTS requests">>]
    ELSE IF token.kind = "nonstr"
    THEN [valid |-> FALSE, error |-> <<"JWT validation failed: ", "no attribute 'startswith'">>]
    ELSE LET d == JwtDecode(StripBearer(token),
                            IF token.kind = "jwt" THEN token.key ELSE JWT_SECRET_KEY,
                            t_now, e.release, TRUE, TRUE)
         IN  IF ~d.ok
             THEN IF d.exc = "ExpiredSignatureError"
                  THEN [valid |-> FALSE, error |-> <<"JWT token has expired">>]
                  ELSE [valid |-> FALSE, error |-> <<"Invalid JWT token: ", d.msg>>]
             ELSE IF /\ Has(d.payload, "exp")
                     /\ d.payload.exp # 0
                     /\ AdditionalExpirationCheck(d.payload.exp, t_now, e.tz)
             THEN [valid |-> FALSE, error |-> <<"JWT token has expired">>]
             ELSE [valid |-> TRUE, payload |-> d.payload,
                   user_id |-> Get(d.payload, "user_id", "unknown")]

validate_jwt_token(token, t_now, e) ==
    IF NotToken(token)
    THEN [valid |-> FALSE, error |-> <<"JWT token is required for TTS requests">>]
    ELSE IF token.kind = "nonstr"
    THEN [valid |-> FALSE, error |-> <<"JWT validation failed: ", "no attribute 'startswith'">>]
    ELSE LET d == JwtDecode(StripBearer(token), JWT_SECRET_KEY, t_now, e.release, TRUE, TRUE)
         IN  IF ~d.ok
             THEN IF d.exc = "ExpiredSignatureError"
                  THEN [valid |-> FALSE, error |-> <<"JWT token has expired">>]
                  ELSE [valid |-> FALSE, error |-> <<"Invalid JWT token: ", d.msg>>]
             ELSE IF /\ Has(d.payload, "exp")
                     /\ d.payload.exp # 0
                     /\ AdditionalExpirationCheck(d.payload.exp, t_now, e.tz)
             THEN [valid |-> FALSE, error |-> <<"JWT token has expired">>]
             ELSE [valid |-> TRUE, payload |-> d.payload,
                   user_id |-> Get(d.payload, "user_id", "unknown")]

\* mutant: the payload carries sub but no user_id claim
generate_jwt_token_NoUserId(user_id, user_data, t_now, e) ==
    Jwt(JWT_SECRET_KEY,
        Update([iat |-> t_now,
                exp |-> t_now + e.ttl,
                iss |-> RpIssuer,
                sub |-> user_id],
               user_data))

generate_jwt_token(user_id, user_data, t_now, e) ==
    Jwt(JWT_SECRET_KEY,
        Update([user_id |-> user_id,
                iat |-> t_now,
                exp |-> t_now + e.ttl,
                iss |-> RpIssuer,
                sub |-> user_id],
               user_data))

-----------------------------------------------------------------------------
(* Gateway/jwt_utils.py: JWTManager *)

JWTManager_generate_token(user_id, role, permissions, custom_claims, t_now, e) ==
    [token |-> Jwt(JWT_SECRET_KEY,
                   Update([user_id |-> user_id,
                           role |-> role,
                           permissions |-> permissions,
                           iat |-> t_now,
                           exp |-> t_now + e.ttl,
                           iss |-> MgrIssuer,
                           sub |-> user_id],
                          custom_claims)),
     user_id |-> user_id,
     role |-> role,
     expires_at |-> t_now + e.ttl,
     expires_in_hours |-> e.ttl,
     issued_at |-> t_now]

\* mutant: `except jwt.InvalidTokenError` placed before
\* `except jwt.ExpiredSignatureError`, which it subsumes
JWTManager_validate_token_ExceptOrder(token, t_now, e) ==
    IF token.kind \in {"none", "nonstr"}
    THEN [valid |-> FALSE, error |-> <<"Token validation failed: ", "no attribute 'startswith'">>]
    ELSE LET d == JwtDecode(StripBearer(token), JWT_SECRET_KEY, t_now, e.release, TRUE, TRUE)
         IN  IF ~d.ok
             THEN [valid |-> FALSE, error |-> <<"Invalid token: ", d.msg>>]
             ELSE IF ~Has(d.payload, "exp")
             THEN [valid |-> FALSE, error |-> <<"Token validation failed: ", "'exp'">>]
             ELSE [valid |-> TRUE, payload |-> d.payload,
                   user_id |-> Get(d.payload, "user_id", "None"),
                   role |-> Get(d.payload, "role", "None"),
                   permissions |-> Get(d.payload, "permissions", <<>>),
                   expires_at |-> d.payload.exp + e.tz]

JWTManager_validate_token(token, t_now, e) ==
    IF token.kind \in {"none", "nonstr"}
    THEN [valid |-> FALSE, error |-> <<"Token validation failed: ", "no attribute 'startswith'">>]
    ELSE LET d == JwtDecode(StripBearer(token), JWT_SECRET_KEY, t_now, e.release, TRUE, TRUE)
         IN  IF ~d.ok
             THEN IF d.exc = "ExpiredSignatureError"
                  THEN [valid |-> FALSE, error |-> <<"Token has expired">>]
                  ELSE [valid |-> FALSE, error |-> <<"Invalid token: ", d.msg>>]
             ELSE IF ~Has(d.payload, "exp")
             THEN [valid |-> FALSE, error |-> <<"Token validation failed: ", "'exp'">>]
             ELSE [valid |-> TRUE, payload |-> d.payload,
                   user_id |-> Get(d.payload, "user_id", "None"),
                   role |-> Get(d.payload, "role", "None"),
                   permissions |-> Get(d.payload, "permissions", <<>>),
                   expires_at |-> d.payload.exp + e.tz]

\* claims that generate_token sets itself
ReservedClaims == {"user_id", "role", "permissions", "iat", "exp", "iss", "sub"}

\* datetime.utcnow() - datetime.fromtimestamp(exp) > timedelta(hours=1): the
\* subtrahend is the host's local wall time of exp
TooOldToRefresh(exp, t_now, tz) == t_now - (exp + tz) > 1

\* JWTManager.refresh_token(token): the token string is decoded as it is,
\* without verifying exp
JWTManager_refresh_token(token, t_now, e) ==
    IF token.kind \in {"none", "nonstr"}
    THEN [success |-> FALSE, error |-> <<"Token refresh failed: ", "Invalid token type">>]
    ELSE LET d == JwtDecode(token, JWT_SECRET_KEY, t_now, e.release, FALSE, FALSE)
         IN  IF ~d.ok
             THEN [success |-> FALSE, error |-> <<"Token refresh failed: ", d.msg>>]
             ELSE IF ~Has(d.payload, "exp")
             THEN [success |-> FALSE, error |-> <<"Token refresh failed: ", "'exp'">>]
             ELSE IF TooOldToRefresh(d.payload.exp, t_now, e.tz)
             THEN [success |-> FALSE, error |-> <<"Token too old to refresh">>]
             ELSE IF ~Has(d.payload, "user_id")
             THEN [success |-> FALSE, error |-> <<"Token refresh failed: ", "'user_id'">>]
             ELSE JWTManager_generate_token(
                      d.payload.user_id,
                      Get(d.payload, "role", "user"),
                      Get(d.payload, "permissions", <<>>),
                      [k \in DOMAIN d.payload \ ReservedClaims |-> d.payload[k]],
                      t_now, e)

\* Gateway/auth.py create_access_token: a token of the same JWT_SECRET_KEY
\* that carries sub and exp only.
create_access_token(username, expire) ==
    Jwt(JWT_SECRET_KEY, [sub |-> username, exp |-> expire])

-----------------------------------------------------------------------------
(* The deployment and the inputs *)

\* A time after every clock value of the model.
FarFuture == MaxClock + DefaultExpirationHours + 1

\* tz: host timezone; release: the PyJWT installed; ttl: JWT_EXPIRATION_HOURS;
\* maxRetries: MAX_RETRIES; apiKey: RUNPOD_API_KEY is set; endpoints: the
\* engines whose *_ENDPOINT variable is set; requireJwt: REQUIRE_JWT of a
\* model handler is unset or 'true'.
DefaultEnv ==
    [tz |-> 0, release |-> "2.6", ttl |-> DefaultExpirationHours,
     maxRetries |-> DefaultMaxRetries, apiKey |-> TRUE,
     endpoints |-> {"kokkoro", "chatterbox"}, requireJwt |-> TRUE]

TokenEnvs ==
    {[DefaultEnv EXCEPT !.tz = z, !.release = r] : z \in TzOffsets, r \in PyJwtReleases}

\* JWT_EXPIRATION_HOURS=1, the shortest lifetime that can be configured
ShortLivedEnvs == {[DefaultEnv EXCEPT !.tz = z, !.ttl = 1] : z \in TzOffsets}

\* user_data of a generate_token job, custom_claims of JWTManager.generate_token
ExtraClaims ==
    {EmptyDict, [role |-> "tester"], [exp |-> 0], [exp |-> FarFuture],
     [iat |-> FarFuture], [iss |-> "evil"], [user_id |-> "mallory"]}

\* Token strings a client can present without asking this gateway: nothing, a
\* non-string, a string that is no JWT, a JWT signed with a key of its own
\* (any claims), a token of Gateway/auth.py.
ForgedClaims ==
    {[user_id |-> "u1", iat |-> 0, exp |-> e, iss |-> RpIssuer, sub |-> "u1"] :
        e \in {0, FarFuture}}

ClientTokens ==
    {NoToken, NonStr, Garbage, EmptyStr}
    \cup {Jwt(OtherKey, c) : c \in ForgedClaims}
    \cup {create_access_token("u1", e) : e \in {0, FarFuture}}

NoOutcome == [kind |-> "none", status |-> 0, body |-> EmptyDict]

NoProv == [by |-> "none", user_id |-> "", role |-> "", extra |-> EmptyDict, at |-> 0]
NoVres == [by |-> "none", at |-> 0, out |-> EmptyDict, prefixed |-> EmptyDict]

IdleJob ==
    /\ gw = "none"
    /\ job = EmptyDict
    /\ pc = "idle"
    /\ attempt = 0
    /\ posts = 0
    /\ validated = FALSE
    /\ start_time = 0
    /\ ctx = EmptyDict
    /\ lastOutcome = NoOutcome
    /\ allTimeouts = TRUE
    /\ trace = <<>>
    /\ forwarded = EmptyDict
    /\ resp = EmptyDict

jobVars == <<gw, job, pc, attempt, posts, validated, start_time, ctx,
             lastOutcome, allTimeouts, trace, forwarded, resp>>
tokVars == <<held, prov, vres>>
pairVars == <<workers, startup, client>>

\* SecureTTSClient.__init__: no token, no expiry, no user, no Authorization
\* header on the session
NoTime == -1
NoAuth == [token |-> "None", username |-> "None", token_expires_at |-> NoTime,
           authorization |-> "None"]

NewClient ==
    [self |-> NoAuth, clock |-> 0, last |-> "__init__", before |-> NoAuth,
     answers |-> <<>>, sent |-> <<>>, printed |-> <<>>]

\* no job is handled concurrently, and the client has not been used
NoWorkers == workers = <<>> /\ startup = EmptyDict /\ client = NewClient

-----------------------------------------------------------------------------
(* Token service runs: a client obtains a token, time passes, the token is
   presented to a validator. *)

InitTok ==
    /\ env \in TokenEnvs \cup ShortLivedEnvs
    /\ now = 1
    /\ held = NoToken
    /\ prov = NoProv
    /\ vres = NoVres
    /\ IdleJob
    /\ NoWorkers

\* rp_handler.generate_jwt_token(user_id, user_data)
RpGenerate(u, d) ==
    /\ held' = generate_jwt_token(u, d, now, env)
    /\ prov' = [by |-> "rp", user_id |-> u, role |-> "", extra |-> d, at |-> now]
    /\ vres' = NoVres
    /\ UNCHANGED <<env, now, jobVars, pairVars>>

\* JWTManager.generate_token(user_id, role, custom_claims=...)
MgrGenerate(u, r, d) ==
    /\ held' = JWTManager_generate_token(u, r, <<>>, d, now, env).token
    /\ prov' = [by |-> "mgr", user_id |-> u, role |-> r, extra |-> d, at |-> now]
    /\ vres' = NoVres
    /\ UNCHANGED <<env, now, jobVars, pairVars>>

\* the client takes a token string of its own making
ClientForge(t) ==
    /\ held' = t
    /\ prov' = [NoProv EXCEPT !.by = "client"]
    /\ vres' = NoVres
    /\ UNCHANGED <<env, now, jobVars, pairVars>>

\* the client writes 'Bearer ' in front of the token it holds
ClientPrefix ==
    /\ IsStr(held) /\ held.prefix < MaxBearer
    /\ held' = WithBearer(held)
    /\ vres' = NoVres
    /\ UNCHANGED <<env, now, prov, jobVars, pairVars>>

RpValidate ==
    /\ vres' = [by |-> "rp", at |-> now, out |-> validate_jwt_token(held, now, env),
                prefixed |-> IF IsStr(held)
                             THEN validate_jwt_token(WithBearer(held), now, env)
                             ELSE EmptyDict]
    /\ UNCHANGED <<env, now, held, prov, jobVars, pairVars>>

MgrValidate ==
    /\ vres' = [by |-> "mgr", at |-> now, out |-> JWTManager_validate_token(held, now, env),
                prefixed |-> IF IsStr(held)
                             THEN JWTManager_validate_token(WithBearer(held), now, env)
                             ELSE EmptyDict]
    /\ UNCHANGED <<env, now, held, prov, jobVars, pairVars>>

\* JWTManager.refresh_token(held)
MgrRefresh ==
    /\ vres' = [by |-> "refresh", at |-> now,
                out |-> JWTManager_refresh_token(held, now, env),
                prefixed |-> EmptyDict]
    /\ UNCHANGED <<env, now, held, prov, jobVars, pairVars>>

\* time passes (a job lasts far less than a step of the clock); a validation
\* result is of the moment it was computed at
Tick ==
    /\ pc = "idle"
    /\ now + ClockStep <= MaxClock
    /\ now' = now + ClockStep
    /\ vres' = NoVres
    /\ UNCHANGED <<env, held, prov, jobVars, pairVars>>

NextTok ==
    \/ \E u \in Users \cup {""}, d \in ExtraClaims : RpGenerate(u, d)
    \/ \E u \in Users \cup {""}, r \in Roles, d \in ExtraClaims : MgrGenerate(u, r, d)
    \/ \E t \in ClientTokens : ClientForge(t)
    \/ ClientPrefix
    \/ RpValidate
    \/ MgrValidate
    \/ MgrRefresh
    \/ Tick

SpecTok == InitTok /\ [][NextTok]_vars

-----------------------------------------------------------------------------
(* Properties of the token service, checked under SpecTok *)

\* held was issued by a generate function and has just been validated by the
\* validator of the same file, at the hour it was issued.
\* a token string is presented as it is, or behind one 'Bearer '
Presented == held.prefix <= 1

ValidatedOnIssue ==
    /\ vres.by \in {"rp", "mgr"}
    /\ prov.by = vres.by
    /\ prov.at = vres.at
    /\ Presented

ExpiredOutcome ==
    /\ ~vres.out.valid
    /\ vres.out.error = IF vres.by = "rp" THEN <<"JWT token has expired">>
                                         ELSE <<"Token has expired">>

OwnIssuer == IF vres.by = "rp" THEN RpIssuer ELSE MgrIssuer

\* C3: every token an issuing function returns, for every user_id and every
\* extra-claims dictionary, is valid when validated right after issuance.
C3_IssuedTokenValidates ==
    ValidatedOnIssue => vres.out.valid

LifetimeCoversOffset == env.ttl + env.tz >= 0

C5_ExpiredRegardlessOfSignature ==
    (/\ vres.by \in {"rp", "mgr"}
     /\ held.kind = "jwt" /\ Presented
     /\ Has(held.claims, "iat") /\ held.claims.iat <= vres.at
     /\ Has(held.claims, "exp") /\ held.claims.exp < vres.at) => ExpiredOutcome

\* C5 amended: a token whose signature verifies, whose iat is present and
\* not in the future and whose exp is in the past gets the expired outcome;
\* a JWT whose signature does not verify is reported invalid and never
\* expired, whatever its exp.
C5_ExpiredWhenSignatureVerifies ==
    (vres.by \in {"rp", "mgr"} /\ held.kind = "jwt" /\ Presented) =>
        /\ (/\ held.key = JWT_SECRET_KEY
            /\ Has(held.claims, "exp") /\ held.claims.exp < vres.at
            /\ Has(held.claims, "iat") /\ held.claims.iat <= vres.at)
           => ExpiredOutcome
        /\ held.key # JWT_SECRET_KEY
           => /\ ~vres.out.valid
              /\ vres.out.error[2] = "Signature verification failed"

C5_Witness ==
    /\ vres.by = "rp" /\ prov.by = "rp" /\ prov.extra = EmptyDict
    /\ held.claims.exp < vres.at
    /\ vres.out.error = <<"JWT token has expired">>

\* C6: a token whose iss is absent or not the gateway's own issuer, or that
\* lacks iat or exp, is reported invalid.
C6_IssuerVerified ==
    (/\ vres.by \in {"rp", "mgr"}
     /\ held.kind = "jwt"
     /\ \/ Get(held.claims, "iss", "absent") # OwnIssuer
        \/ ~Has(held.claims, "iat")
        \/ ~Has(held.claims, "exp")) => ~vres.out.valid

\* two validation results are the same outcome: the same valid flag, the
\* same claims when valid, the same kind of error when not
SameOutcome(a, b) ==
    /\ a.valid = b.valid
    /\ a.valid => a.payload = b.payload
    /\ ~a.valid => a.error[1] = b.error[1]

\* a validator was handed the string held and the string 'Bearer ' + held
ValidatedBothWays == vres.by \in {"rp", "mgr"} /\ IsStr(held)

\* C19 as stated: for every token string t, validate_jwt_token('Bearer ' + t)
\* and JWTManager.validate_token('Bearer ' + t) give the same outcome as for t.
C19_BearerPrefixIgnored ==
    ValidatedBothWays => SameOutcome(vres.prefixed, vres.out)

\* C19 amended: validation strips one leading 'Bearer '.  For every non-empty
\* token string t that does not itself start with 'Bearer ', 'Bearer ' + t
\* gets the same outcome as t.  When t starts with 'Bearer ' and validates,
\* 'Bearer ' + t is invalid (one prefix is left).  For the empty string
\* validate_jwt_token reports the token as required, and reports 'Bearer '
\* alone as an invalid token; JWTManager.validate_token reports both invalid.
C19_OneBearerPrefixStripped ==
    ValidatedBothWays =>
        /\ (held.prefix = 0 /\ held.kind # "empty")
              => SameOutcome(vres.prefixed, vres.out)
        /\ (held.prefix > 0 /\ vres.out.valid) => ~vres.prefixed.valid
        /\ (held = EmptyStr /\ vres.by = "rp")
              => /\ vres.out.error = <<"JWT token is required for TTS requests">>
                 /\ vres.prefixed.error[1] = "Invalid JWT token: "
        /\ (held = EmptyStr /\ vres.by = "mgr")
              => SameOutcome(vres.prefixed, vres.out)

C19_Witness ==
    /\ ValidatedBothWays /\ vres.by = "mgr"
    /\ held.kind = "jwt" /\ held.prefix = 0
    /\ vres.out.valid /\ vres.prefixed.valid
    /\ vres.prefixed.payload = held.claims

\* the client holds a token an issuing function returned
IssuedToken == prov.by \in {"rp", "mgr"} /\ held.kind = "jwt"

\* C22: extra claims supplied by the caller never replace the reserved claims:
\* every issued token carries the requested user_id (also as sub), the
\* issuer's iss, the time of issue as iat and exp exactly the configured TTL
\* after it, the lifetime reported with the token.
C22_ReservedClaimsKept ==
    IssuedToken =>
        /\ held.claims.user_id = prov.user_id
        /\ held.claims.sub = prov.user_id
        /\ held.claims.iat = prov.at
        /\ held.claims.exp = prov.at + env.ttl
        /\ held.claims.iss = (IF prov.by = "rp" THEN RpIssuer ELSE MgrIssuer)

\* jwt.decode of validate_jwt_token accepted the string validated last:
\* the signature verifies and the library finds exp in the future
LibraryAccepted ==
    /\ vres.by = "rp" /\ held.kind = "jwt" /\ Presented
    /\ JwtDecode(StripBearer(held), JWT_SECRET_KEY, vres.at, env.release, TRUE, TRUE).ok

\* C24: the additional expiration check of validate_jwt_token never rejects
\* a token that passed the library's exp verification, for every host
\* timezone and every JWT_EXPIRATION_HOURS >= 1.
C24_AdditionalCheckNeverRejects ==
    LibraryAccepted => vres.out.valid

\* a token JWTManager issued, as issued, was handed to refresh_token
RefreshedOwnToken ==
    /\ vres.by = "refresh" /\ prov.by = "mgr"
    /\ held.kind = "jwt" /\ held.prefix = 0
    /\ \A k \in {"user_id", "iat", "exp"} : Has(held.claims, k)
    /\ held.claims.iat <= vres.at

\* C28: JWTManager.refresh_token returns a new token with the same user_id,
\* role, permissions and custom claims when the presented token is correctly
\* signed and still valid or expired at most one hour ago, in every host
\* timezone; it fails with 'Token too old to refresh' when the token expired
\* more than one hour ago, and fails when the signature does not verify.
C28_RefreshWithinOneHour ==
    /\ RefreshedOwnToken =>
          IF held.claims.exp >= vres.at - 1
          THEN /\ Has(vres.out, "token")
               /\ vres.out.token.claims.user_id = held.claims.user_id
               /\ vres.out.token.claims.role = held.claims.role
               /\ vres.out.token.claims.permissions = held.claims.permissions
               /\ \A k \in DOMAIN held.claims \ ReservedClaims :
                     vres.out.token.claims[k] = held.claims[k]
          ELSE Get(vres.out, "error", <<>>) = <<"Token too old to refresh">>
    /\ (vres.by = "refresh" /\ held.kind = "jwt" /\ held.key # JWT_SECRET_KEY)
          => /\ ~Has(vres.out, "token")
             /\ Get(vres.out, "success", TRUE) = FALSE

-----------------------------------------------------------------------------
(* Gateway/rp_handler.py: configuration and request routing *)

MODEL_CONFIGS ==
    [kokkoro |-> [endpoint |-> "KOKKORO_ENDPOINT", timeout |-> 120,
                  voices |-> <<"kokkoro_default", "kokkoro_sweet", "kokkoro_energetic",
                               "kokkoro_calm", "kokkoro_english">>,
                  model_type |-> "real_kokkoro"],
     chatterbox |-> [endpoint |-> "CHATTERBOX_ENDPOINT", timeout |-> 180,
                     voices |-> <<"chatterbox_default", "chatterbox_casual",
                                  "chatterbox_professional", "chatterbox_energetic",
                                  "chatterbox_calm", "chatterbox_dramatic",
                                  "chatterbox_narrator", "chatterbox_friendly">>,
                     model_type |-> "real_chatterbox_neural"]]

\* str.lower() on the engine names of the model
LowerMap == [KOKKORO |-> "kokkoro", Chatterbox |-> "chatterbox"]
Lower(str) == IF str \in DOMAIN LowerMap THEN LowerMap[str] ELSE str

InSeq(x, sq) == \E i \in 1..Len(sq) : sq[i] = x

\* mutant: only an absent field counts, the empty string passes
Falsy_NoneOnly(v) == v = "None"

\* a falsy value of a job field: absent, None or the empty string
Falsy(v) == v \in {"None", ""}

\* job_input.get('jwt_token') or job_input.get('token') or
\* job_input.get('authorization') or job_input.get('auth_token')
TokenFields == <<"jwt_token", "token", "authorization", "auth_token">>

RECURSIVE FirstToken(_, _)
FirstToken(j, i) ==
    IF i > Len(TokenFields) THEN NoToken
    ELSE IF ~NotToken(Get(j, TokenFields[i], NoToken))
    THEN j[TokenFields[i]]
    ELSE FirstToken(j, i + 1)

Respond(r, v) == [next |-> "respond", resp |-> r, validated |-> v, ctx |-> EmptyDict]

\* mutant: the job input is forwarded with the defaults filled in
rp_tts_payload_PassThrough(j, jwt_token, text, engine) ==
    Update([text |-> text,
            voice |-> Get(j, "voice", MODEL_CONFIGS[engine].voices[1]),
            speed |-> Get(j, "speed", "1.0"),
            format |-> Get(j, "format", "mp3"),
            jwt_token |-> jwt_token,
            model_type |-> MODEL_CONFIGS[engine].model_type],
           j)

\* tts_payload of handler(), lines 357-385
rp_tts_payload(j, jwt_token, text, engine) ==
    LET voices == MODEL_CONFIGS[engine].voices
        requested_voice == Get(j, "voice", voices[1])
        base == [text |-> text,
                 voice |-> IF InSeq(requested_voice, voices) THEN requested_voice
                           ELSE voices[1],
                 speed |-> Get(j, "speed", "1.0"),
                 format |-> Get(j, "format", "mp3"),
                 jwt_token |-> jwt_token]
    IN  IF engine = "kokkoro"
        THEN Update(base, [language |-> Get(j, "language",
                                            IF requested_voice = "kokkoro_japanese"
                                            THEN "ja" ELSE "en"),
                           model_type |-> "real_kokkoro"])
        ELSE Update(base, [exaggeration |-> Get(j, "exaggeration", "None"),
                           cfg_weight |-> Get(j, "cfg_weight", "None"),
                           audio_prompt_path |-> Get(j, "audio_prompt_path", "None"),
                           model_type |-> "real_chatterbox_neural"])

\* handler() up to the call of call_tts_endpoint_v3 (lines 159-388): either
\* the response it returns, or the arguments of the forwarder call.
rp_handler_route(j, t_now, e) ==
    LET action == Get(j, "action", "None")
        jwt_token == FirstToken(j, 1)
        token_validation == validate_jwt_token(jwt_token, t_now, e)
        user_id == Get(token_validation.payload, "user_id", "unknown")
        text == Get(j, "text", "None")
        engine == Lower(Get(j, "engine", "chatterbox"))
    IN  IF action = "health"
        THEN Respond([status |-> "healthy",
                      available_engines |-> DOMAIN MODEL_CONFIGS,
                      jwt_auth_enabled |-> TRUE], FALSE)
        ELSE IF action = "generate_token"
        THEN IF Falsy(Get(j, "user_id", "None"))
             THEN Respond([error |-> <<"Missing required parameter: 'user_id'">>], FALSE)
             ELSE Respond([success |-> TRUE,
                           token |-> generate_jwt_token(j.user_id,
                                        Get(j, "user_data", EmptyDict), t_now, e),
                           user_id |-> j.user_id,
                           expires_in_hours |-> e.ttl], FALSE)
        ELSE IF action \in {"info", "models"}
        THEN Respond([available_models |-> MODEL_CONFIGS], FALSE)
        ELSE IF NotToken(jwt_token)
        THEN Respond([error |-> <<"AUTHENTICATION REQUIRED: Please provide a valid JWT token">>,
                      auth_required |-> TRUE], FALSE)
        ELSE IF ~token_validation.valid
        THEN IF jwt_token.kind = "nonstr"
             THEN \* len(jwt_token) raises; caught by the handler's except Exception
                  Respond([error |-> <<"Internal gateway error: ", "has no len()">>,
                           strict_mode |-> TRUE], FALSE)
             ELSE Respond([error |-> <<"AUTHENTICATION FAILED: ">> \o token_validation.error,
                           auth_required |-> TRUE], FALSE)
        ELSE IF Falsy(text)
        THEN Respond([error |-> <<"Missing required parameter: 'text'">>,
                      user_id |-> user_id], token_validation.valid)
        ELSE IF engine \notin DOMAIN MODEL_CONFIGS
        THEN Respond([error |-> <<"Invalid engine '", engine, "'. Available engines: ">>,
                      available_engines |-> DOMAIN MODEL_CONFIGS,
                      user_id |-> user_id], token_validation.valid)
        ELSE [next |-> "forward", resp |-> EmptyDict, validated |-> token_validation.valid,
              ctx |-> [endpoint |-> MODEL_CONFIGS[engine].endpoint,
                       payload |-> rp_tts_payload(j, jwt_token, text, engine),
                       user_id |-> user_id,
                       engine |-> engine,
                       text |-> text]]

-----------------------------------------------------------------------------
(* What a backend POST can come back with: requests.exceptions.Timeout,
   another exception (connection error), or an HTTP response with a status
   and a body.  A body is a JSON object, or text that is no JSON. *)

NotJson == [notjson |-> TRUE]
BodySuccess == [success |-> TRUE, audio_url |-> "x.mp3"]
BodyPlain == [audio_url |-> "x.mp3"]
BodyError == [success |-> FALSE, error |-> "backend error"]
BodyOutput == [output |-> [audio_url |-> "x.mp3"]]

TimeoutOutcome == [kind |-> "timeout", status |-> 0, body |-> EmptyDict]
ConnectionError == [kind |-> "connerr", status |-> 0, body |-> EmptyDict]
Http(status, body) == [kind |-> "http", status |-> status, body |-> body]

Outcomes ==
    {TimeoutOutcome, ConnectionError, Http(500, NotJson), Http(202, BodySuccess)}
    \cup {Http(200, b) : b \in {BodySuccess, BodyPlain, BodyError, BodyOutput, NotJson}}

StatusStr(n) == CASE n = 200 -> "200" [] n = 202 -> "202" [] n = 500 -> "500" [] OTHER -> "?"

SecondsStr(n) == CASE n = 120 -> "120" [] n = 180 -> "180" [] OTHER -> "300"

Return(result) == [ret |-> TRUE, result |-> result]
Continue == [ret |-> FALSE, result |-> EmptyDict]

\* mutant: the failure of the attempt before the last is already final
IsLastAttempt_Early(att, max_retries) == att >= max_retries - 2

\* if attempt == MAX_RETRIES - 1
IsLastAttempt(att, max_retries) == att = max_retries - 1

\* One pass of the loop body of call_tts_endpoint_v3 (lines 487-537), the POST
\* having come back with o: the value returned, or Continue.
rp_attempt(o, att, max_retries, timeout) ==
    LET last == IsLastAttempt(att, max_retries) IN
    IF o.kind = "http" /\ o.status = 200 /\ ~Has(o.body, "notjson")
    THEN IF Get(o.body, "success", FALSE) = TRUE
         THEN Return([success |-> TRUE, data |-> o.body])
         ELSE Return([success |-> FALSE,
                      error |-> <<Get(o.body, "error", "V3 TTS generation failed")>>])
    ELSE IF o.kind = "http" /\ o.status # 200
    THEN IF last
         THEN Return([success |-> FALSE, error |-> <<"HTTP ", StatusStr(o.status), ": ">>])
         ELSE Continue
    ELSE IF o.kind = "timeout"
    THEN IF last
         THEN Return([success |-> FALSE,
                      error |-> <<"Request timeout after ", SecondsStr(timeout),
                                  "s - V3 models need more processing time">>])
         ELSE Continue
    ELSE IF last
         THEN Return([success |-> FALSE, error |-> <<"str(e)">>])
         ELSE Continue

\* mutant: the forwarder goes to its loop without looking at RUNPOD_API_KEY
rp_forward_start_NoKeyCheck(e, payload, engine) ==
    IF e.maxRetries <= 0
    THEN Return([success |-> FALSE, error |-> <<"Max retries exceeded">>])
    ELSE Continue

\* call_tts_endpoint_v3 before the loop (lines 455-476) and when the loop
\* body never runs (lines 545-548): the value returned without any POST, or
\* Continue when the loop is entered.
rp_forward_start(e, payload, engine) ==
    IF ~e.apiKey
    THEN Return([success |-> TRUE,
                 data |-> [audio_url |-> "/tmp/dummy_audio.mp3",
                           playable_url |-> "/tmp/dummy_audio.mp3",
                           voice_used |-> Get(payload, "voice", "default"),
                           payload_sent |-> payload]])
    ELSE IF e.maxRetries <= 0
    THEN Return([success |-> FALSE, error |-> <<"Max retries exceeded">>])
    ELSE Continue

\* mutant: the success response reports the gateway's own file name
rp_handler_finish_OwnAudioUrl(result, c) ==
    IF result.success
    THEN [success |-> TRUE,
          user_id |-> c.user_id,
          engine |-> c.engine,
          audio_url |-> "/tmp/gateway_audio.mp3",
          playable_url |-> Get(result.data, "playable_url", "None"),
          endpoint_used |-> c.endpoint,
          authenticated |-> TRUE,
          jwt_validated |-> TRUE]
    ELSE [error |-> <<"TTS processing failed: ">> \o result.error,
          user_id |-> c.user_id,
          engine |-> c.engine,
          endpoint_used |-> c.endpoint,
          authenticated |-> TRUE]

\* mutant: a failed forwarder call is answered without an error
rp_handler_finish_FailureDropped(result, c) ==
    IF result.success
    THEN [success |-> TRUE,
          user_id |-> c.user_id,
          engine |-> c.engine,
          audio_url |-> Get(result.data, "audio_url", "None"),
          playable_url |-> Get(result.data, "playable_url", "None"),
          endpoint_used |-> c.endpoint,
          authenticated |-> TRUE,
          jwt_validated |-> TRUE]
    ELSE [user_id |-> c.user_id,
          engine |-> c.engine,
          endpoint_used |-> c.endpoint,
          authenticated |-> TRUE]

\* handler() after the forwarder call (lines 390-440)
rp_handler_finish(result, c) ==
    IF result.success
    THEN [success |-> TRUE,
          user_id |-> c.user_id,
          engine |-> c.engine,
          audio_url |-> Get(result.data, "audio_url", "None"),
          playable_url |-> Get(result.data, "playable_url", "None"),
          endpoint_used |-> c.endpoint,
          authenticated |-> TRUE,
          jwt_validated |-> TRUE]
    ELSE [error |-> <<"TTS processing failed: ">> \o result.error,
          user_id |-> c.user_id,
          engine |-> c.engine,
          endpoint_used |-> c.endpoint,
          authenticated |-> TRUE]

-----------------------------------------------------------------------------
(* models/kokkoro/handler.py, models/chatterbox/handler.py: the backend's own
   check of the token it finds in the payload *)

\* KokkoroHandler.verify_jwt_token, ChatterboxServerlessHandler.verify_jwt_token;
\* jwt_secret is the backend's JWT_SECRET_KEY ("" when unset).  The token
\* string is decoded as it is.
verify_jwt_token(token, jwt_secret, t_now, release) ==
    IF jwt_secret = ""
    THEN [valid |-> FALSE, error |-> <<"JWT secret not configured">>]
    ELSE LET d == JwtDecode(token, jwt_secret, t_now, release, TRUE, FALSE)
         IN  IF ~d.ok
             THEN IF d.exc = "ExpiredSignatureError"
                  THEN [valid |-> FALSE, error |-> <<"Token expired">>]
                  ELSE [valid |-> FALSE, error |-> <<"Invalid token: ", d.msg>>]
             ELSE [valid |-> TRUE, user_data |-> d.payload]

\* models/chatterbox/handler.py handler(event): the response, and whether
\* verify_jwt_token was called and reported valid.  The operations behind
\* the actions (list_voices, create_voice_from_audio, synthesize_speech) are
\* taken to succeed.
cb_handler_route(j, t_now, e) ==
    LET action == Get(j, "action", "synthesize")
        first == Get(j, "jwt_token", NoToken)
        auth_token == IF ~NotToken(first) THEN first ELSE Get(j, "auth_token", NoToken)
        checked == e.requireJwt /\ action \notin {"health", "voices"}
        jwt_result == verify_jwt_token(auth_token, JWT_SECRET_KEY, t_now, e.release)
        verified == checked /\ ~NotToken(auth_token) /\ jwt_result.valid
    IN  IF checked /\ NotToken(auth_token)
        THEN Respond([error |-> <<"JWT token required">>, success |-> FALSE], FALSE)
        ELSE IF checked /\ ~jwt_result.valid
        THEN Respond([error |-> <<"JWT failed: ">> \o jwt_result.error,
                      success |-> FALSE], FALSE)
        ELSE IF action = "health"
        THEN Respond([status |-> "healthy", success |-> TRUE], verified)
        ELSE IF action \in {"voices", "list_voices"}
        THEN Respond([success |-> TRUE, voices |-> {"female_default"}], verified)
        ELSE IF action = "create_voice"
        THEN IF Falsy(Get(j, "voice_name", "None")) \/ Falsy(Get(j, "audio_base64", "None"))
             THEN Respond([error |-> <<"Missing voice_name or audio_base64">>,
                           success |-> FALSE], verified)
             ELSE Respond([success |-> TRUE, voice_id |-> j.voice_name], verified)
        ELSE IF action = "synthesize" \/ Falsy(action)
        THEN IF Falsy(Get(j, "text", "None"))
             THEN Respond([error |-> <<"Missing text parameter">>, success |-> FALSE],
                          verified)
             ELSE Respond([success |-> TRUE, audio_url |-> "x.mp3"], verified)
        ELSE Respond([error |-> <<"Unknown action: ", action>>, success |-> FALSE],
                     verified)

-----------------------------------------------------------------------------
(* gateway/handler.py *)

gh_endpoints == [kokkoro |-> "KOKKORO_ENDPOINT", chatterbox |-> "CHATTERBOX_ENDPOINT"]

\* mutant: the message lists the available engines only
validate_input_AvailableOnly(job_input) ==
    LET engine == Lower(Get(job_input, "engine", "kokkoro")) IN
    IF Falsy(Get(job_input, "text", "None"))
    THEN [is_valid |-> FALSE, error_msg |-> <<"Missing 'text' parameter">>]
    ELSE IF engine \notin DOMAIN gh_endpoints
    THEN [is_valid |-> FALSE, error_msg |-> <<"Unsupported engine. Available: ">>]
    ELSE [is_valid |-> TRUE, error_msg |-> <<>>]

\* TTSGateway.validate_input
validate_input(job_input) ==
    LET engine == Lower(Get(job_input, "engine", "kokkoro")) IN
    IF Falsy(Get(job_input, "text", "None"))
    THEN [is_valid |-> FALSE, error_msg |-> <<"Missing 'text' parameter">>]
    ELSE IF engine \notin DOMAIN gh_endpoints
    THEN [is_valid |-> FALSE,
          error_msg |-> <<"Unsupported engine: ", engine, ". Available: ">>]
    ELSE [is_valid |-> TRUE, error_msg |-> <<>>]

\* handler() up to the call of gateway.call_tts_endpoint (lines 113-159)
gh_handler_route(j) ==
    LET engine == Lower(Get(j, "engine", "kokkoro"))
        base == [text |-> Get(j, "text", "None"),
                 voice |-> Get(j, "voice", "default"),
                 speed |-> Get(j, "speed", "1.0")]
    IN  IF Get(j, "action", "None") = "health"
        THEN Respond([status |-> "healthy", endpoints |-> DOMAIN gh_endpoints], FALSE)
        ELSE IF ~validate_input(j).is_valid
        THEN Respond([error |-> validate_input(j).error_msg], FALSE)
        ELSE [next |-> "forward", resp |-> EmptyDict, validated |-> FALSE,
              ctx |-> [endpoint |-> gh_endpoints[engine],
                       payload |-> IF engine = "kokkoro"
                                   THEN Update(base, [language |-> Get(j, "language", "en"),
                                                      speaker_id |-> Get(j, "speaker_id", "0")])
                                   ELSE Update(base, [model |-> Get(j, "model", "default"),
                                                      format |-> Get(j, "format", "wav")]),
                       engine |-> engine,
                       text |-> j.text]]

\* mutant: a Timeout is logged and never returned
gh_attempt_TimeoutSwallowed(o, att, endpoint) ==
    LET last == IsLastAttempt(att, RETRY_ATTEMPTS) IN
    IF o.kind = "http" /\ o.status = 200 /\ ~Has(o.body, "notjson")
    THEN Return([success |-> TRUE, data |-> o.body, endpoint |-> endpoint,
                 attempt |-> att + 1])
    ELSE IF o.kind = "http" /\ o.status # 200
    THEN IF last
         THEN Return([success |-> FALSE, error |-> <<"HTTP ", StatusStr(o.status), ": ">>,
                      endpoint |-> endpoint])
         ELSE Continue
    ELSE IF o.kind = "timeout"
    THEN Continue
    ELSE IF last
         THEN Return([success |-> FALSE, error |-> <<"str(e)">>, endpoint |-> endpoint])
         ELSE Continue

\* One pass of the loop body of TTSGateway.call_tts_endpoint (lines 56-100)
gh_attempt(o, att, endpoint) ==
    LET last == IsLastAttempt(att, RETRY_ATTEMPTS) IN
    IF o.kind = "http" /\ o.status = 200 /\ ~Has(o.body, "notjson")
    THEN Return([success |-> TRUE, data |-> o.body, endpoint |-> endpoint,
                 attempt |-> att + 1])
    ELSE IF o.kind = "http" /\ o.status # 200
    THEN IF last
         THEN Return([success |-> FALSE, error |-> <<"HTTP ", StatusStr(o.status), ": ">>,
                      endpoint |-> endpoint])
         ELSE Continue
    ELSE IF o.kind = "timeout"
    THEN IF last
         THEN Return([success |-> FALSE, error |-> <<"Request timeout">>,
                      endpoint |-> endpoint])
         ELSE Continue
    ELSE IF last
         THEN Return([success |-> FALSE, error |-> <<"str(e)">>, endpoint |-> endpoint])
         ELSE Continue

\* handler() after the forwarder call (lines 161-176)
gh_handler_finish(result, c) ==
    IF result.success
    THEN [engine |-> c.engine, text |-> c.text, result |-> result.data]
    ELSE [error |-> <<"TTS processing failed: ">> \o result.error, engine |-> c.engine]

-----------------------------------------------------------------------------
(* gateway/main.py.  get_model_endpoints() reads KOKKORO_ENDPOINT and
   CHATTERBOX_ENDPOINT, which have no default: e.endpoints is the set of the
   engines whose variable is set. *)

gm_models == {"kokkoro", "chatterbox"}

\* text = input_data.get('text') or input_data.get('prompt') or input_data.get('message')
gm_text(j) ==
    IF ~Falsy(Get(j, "text", "None")) THEN j.text
    ELSE IF ~Falsy(Get(j, "prompt", "None")) THEN j.prompt
    ELSE Get(j, "message", "None")

\* handler(event) up to requests.post (lines 143-203)
gm_handler_route(j, e) ==
    LET action == Get(j, "action", "None")
        model == Get(j, "model", "kokkoro")
    IN  IF action = "get_models"
        THEN Respond([output |-> [models |-> e.endpoints]], FALSE)
        ELSE IF action = "health_check"
        THEN Respond([output |-> [status |-> "healthy", models |-> e.endpoints]], FALSE)
        ELSE IF Falsy(gm_text(j))
        THEN Respond([error |-> <<"Text field is required for TTS synthesis">>], FALSE)
        ELSE IF model \notin gm_models \/ model \notin e.endpoints
        THEN Respond([error |-> <<"Model '", model, "' not available. Available: ">>], FALSE)
        ELSE [next |-> "forward", resp |-> EmptyDict, validated |-> FALSE,
              ctx |-> [endpoint |-> model,
                       payload |-> [text |-> gm_text(j),
                                    voice |-> Get(j, "voice", "default"),
                                    speed |-> Get(j, "speed", "1.0")],
                       engine |-> model,
                       text |-> gm_text(j)]]

\* handler(event) after requests.post (lines 205-216); an exception of the
\* POST or of response.json() lands in the handler's except Exception
gm_handler_finish(o) ==
    IF o.kind # "http" \/ (o.status = 200 /\ Has(o.body, "notjson"))
    THEN [error |-> <<"Gateway error: ", "str(e)">>]
    ELSE IF o.status # 200
    THEN [error |-> <<"Model service error: ", StatusStr(o.status)>>]
    ELSE IF Has(o.body, "output")
    THEN [output |-> o.body.output]
    ELSE [error |-> <<"Model returned: ", "result">>]

\* POST /synthesize up to client.post (lines 79-116)
synthesize_route(j, e) ==
    IF j.model \notin gm_models
    THEN Respond([status_code |-> 400,
                  detail |-> <<"Model '", j.model, "' not available. Available models: ">>],
                 FALSE)
    ELSE IF j.model \notin e.endpoints
    THEN Respond([status_code |-> 503,
                  detail |-> <<"Model '", j.model, "' endpoint not configured">>], FALSE)
    ELSE [next |-> "forward", resp |-> EmptyDict, validated |-> FALSE,
          ctx |-> [endpoint |-> j.model,
                   payload |-> [text |-> j.text,
                                voice |-> Get(j, "voice", "default"),
                                speed |-> Get(j, "speed", "1.0")],
                   engine |-> j.model,
                   text |-> j.text]]

\* POST /synthesize after client.post (lines 117-138)
synthesize_finish(o, c) ==
    IF o.kind # "http"
    THEN [status_code |-> 503, detail |-> <<"Model service unavailable: ", "str(e)">>]
    ELSE IF o.status >= 400
    THEN [status_code |-> o.status, detail |-> <<"Model service error: ", "text">>]
    ELSE IF Has(o.body, "notjson")
    THEN [status_code |-> 500, detail |-> <<"Internal Server Error">>]
    ELSE IF Has(o.body, "output")
    THEN [status_code |-> 200,
          audio_url |-> Get(o.body.output, "audio_url", ""),
          model_used |-> Get(o.body.output, "model_used", c.engine),
          status |-> Get(o.body.output, "status", "success")]
    ELSE IF Has(o.body, "error")
    THEN [status_code |-> 500, detail |-> <<"Model error: ", o.body.error>>]
    ELSE [status_code |-> 500, detail |-> <<"Invalid response from model service">>]

-----------------------------------------------------------------------------
(* The gateway at work: one deployment runs one of the gateway files; it is
   handed jobs, each handled to its response. *)

Field(k, v) == IF v = "<absent>" THEN EmptyDict ELSE (k :> v)
TokenField(k, t) == IF t.kind = "none" THEN EmptyDict ELSE (k :> t)

\* Token strings a client can put in a job at t_now: those it can make itself,
\* and tokens this gateway issued for it, now or when the clock started.
TokensOnOffer(t_now, e) ==
    {NoToken, NonStr, Garbage, EmptyStr}
    \cup {Jwt(OtherKey, c) : c \in ForgedClaims}
    \cup {generate_jwt_token("alice", d, t, e) :
            t \in {1, t_now}, d \in {EmptyDict, [exp |-> FarFuture]}}
    \cup {WithBearer(generate_jwt_token("alice", EmptyDict, t_now, e))}

EngineNames == {"<absent>", "kokkoro", "Chatterbox", "doesnotexist"}

RpJobs(t_now, e) ==
    {Field("action", a) @@ TokenField(f, t) @@ Field("text", x) @@ Field("engine", g) :
        a \in {"<absent>", "synthesize"},
        f \in {"jwt_token"}, t \in TokensOnOffer(t_now, e),
        x \in {"<absent>", "hello"}, g \in EngineNames}
    \cup {[action |-> "synthesize", text |-> "hello", engine |-> "kokkoro"]
            @@ TokenField(f, generate_jwt_token("alice", EmptyDict, t_now, e)) :
        f \in {"token", "authorization", "auth_token"}}
    \cup {[action |-> a] @@ Field("text", x) @@ Field("engine", "kokkoro") :
        a \in {"health", "info", "models"}, x \in {"<absent>", "hello"}}
    \cup {[text |-> "hello", engine |-> g, voice |-> v, language |-> "ja",
            exaggeration |-> "0.7", webhook |-> "http://client/hook",
            jwt_token |-> generate_jwt_token("alice", EmptyDict, t_now, e)] :
        g \in {"kokkoro", "Chatterbox"}, v \in {"kokkoro_sweet", "nosuchvoice"}}
    \cup {[action |-> "list_models"] @@ TokenField("jwt_token", t) :
        t \in {NoToken, generate_jwt_token("alice", EmptyDict, t_now, e)}}
    \cup {[action |-> "generate_token"] @@ Field("user_id", u) @@ d
            @@ TokenField("jwt_token", t) :
        u \in {"<absent>", "", "alice"},
        d \in {EmptyDict, [user_data |-> [exp |-> 0]]},
        t \in {NoToken, Garbage}}

GhJobs(t_now, e) ==
    {Field("action", a) @@ TokenField("jwt_token", t) @@ Field("text", x)
        @@ Field("engine", g) :
        a \in {"<absent>", "health"},
        t \in {NoToken, generate_jwt_token("alice", EmptyDict, t_now, e)},
        x \in {"<absent>", "hello"}, g \in EngineNames}

GmJobs(t_now, e) ==
    {Field("action", a) @@ x @@ Field("model", g) @@ TokenField("jwt_token", t) :
        a \in {"<absent>", "get_models", "health_check", "health"},
        x \in {EmptyDict, [text |-> "hello"], [prompt |-> "hello"]},
        g \in {"<absent>", "kokkoro", "chatterbox", "KOKKORO", "doesnotexist"},
        t \in {NoToken, generate_jwt_token("alice", EmptyDict, t_now, e)}}

\* jobs of the chatterbox model handler
CbJobs(t_now, e) ==
    {Field("action", a) @@ TokenField(f, t) @@ Field("text", x) :
        a \in {"<absent>", "health", "voices", "list_voices", "synthesize", "delete_voice"},
        f \in {"jwt_token", "auth_token"},
        t \in {NoToken, Garbage, generate_jwt_token("alice", EmptyDict, t_now, e)},
        x \in {"<absent>", "hello"}}
    \cup {[action |-> "create_voice"] @@ Field("voice_name", v) @@ Field("audio_base64", v)
            @@ TokenField("jwt_token", t) :
        v \in {"<absent>", "myvoice"},
        t \in {NoToken, generate_jwt_token("alice", EmptyDict, t_now, e)}}

\* TTSRequest: text and model are required fields
SynRequests ==
    {[text |-> "hello", model |-> g] :
        g \in {"kokkoro", "chatterbox", "KOKKORO", "doesnotexist"}}

\* rp_handler.py is deployed on any host clock and PyJWT release, and with any
\* MAX_RETRIES and with or without RUNPOD_API_KEY; the two pairs of settings
\* bear on different functions (validate_jwt_token, call_tts_endpoint_v3)
Deployments ==
    {[gw |-> "rp", env |-> e] : e \in TokenEnvs}
    \cup {[gw |-> "rp", env |-> [DefaultEnv EXCEPT !.maxRetries = m, !.apiKey = k]] :
            m \in 0..MaxRetriesCfg, k \in BOOLEAN}
    \cup {[gw |-> "gh", env |-> DefaultEnv]}
    \cup {[gw |-> "cb", env |-> [DefaultEnv EXCEPT !.requireJwt = q]] : q \in BOOLEAN}
    \cup {[gw |-> v, env |-> [DefaultEnv EXCEPT !.endpoints = eps]] :
        v \in {"gm", "syn"}, eps \in {{}, {"kokkoro"}, {"kokkoro", "chatterbox"}}}

Init ==
    /\ \E d \in Deployments : gw = d.gw /\ env = d.env
    /\ now = 1
    /\ held = NoToken
    /\ prov = NoProv
    /\ vres = NoVres
    /\ job = EmptyDict
    /\ pc = "idle"
    /\ attempt = 0
    /\ posts = 0
    /\ validated = FALSE
    /\ start_time = 0
    /\ ctx = EmptyDict
    /\ lastOutcome = NoOutcome
    /\ allTimeouts = TRUE
    /\ trace = <<>>
    /\ forwarded = EmptyDict
    /\ resp = EmptyDict
    /\ NoWorkers

\* mutant: the next pass starts at once
LoopTail_NoWait(att, max_retries) ==
    IF att + 1 < max_retries THEN "attempt" ELSE "exhausted"

\* Where the loop goes after a pass that did not return (rp_handler.py lines
\* 539-548, gateway/handler.py lines 102-106): sleep before the next pass,
\* the next pass at once, or out of the loop.
LoopTail(att, max_retries) ==
    IF att < max_retries - 1 THEN "sleep"
    ELSE IF att + 1 < max_retries THEN "attempt"
    ELSE "exhausted"

\* wait_time = 2 ** attempt
BackoffSeconds(att) == 2 ^ att

MaxRetriesExceeded == [success |-> FALSE, error |-> <<"Max retries exceeded">>]

\* a job is taken up: r is what the handler does before any backend call,
\* first what the forwarder does before its loop, first_resp the handler's
\* response when the forwarder returns before its loop
TakeUp(j, r, first, first_resp) ==
    /\ pc = "idle"
    /\ job' = j
    /\ start_time' = now
    /\ validated' = r.validated
    /\ attempt' = 0
    /\ posts' = 0
    /\ lastOutcome' = NoOutcome
    /\ allTimeouts' = TRUE
    /\ trace' = <<>>
    /\ IF r.next = "respond"
       THEN pc' = "done" /\ resp' = r.resp /\ ctx' = EmptyDict /\ forwarded' = EmptyDict
       ELSE IF first.ret
       THEN /\ pc' = "done" /\ ctx' = r.ctx
            /\ forwarded' = first.result /\ resp' = first_resp
       ELSE pc' = "attempt" /\ resp' = EmptyDict /\ ctx' = r.ctx /\ forwarded' = EmptyDict
    /\ UNCHANGED <<env, now, gw, tokVars, pairVars>>

\* a POST of the retry loop has come back with o: a is what the loop body
\* makes of it, returned_resp the handler's response when the body returns,
\* exhausted_resp its response when the loop runs out
LoopPass(o, a, max_retries, returned_resp, exhausted_resp) ==
    /\ pc = "attempt"
    /\ posts' = posts + 1
    /\ lastOutcome' = o
    /\ allTimeouts' = (allTimeouts /\ o.kind = "timeout")
    /\ trace' = Append(trace, [ev |-> "post", n |-> attempt + 1])
    /\ IF a.ret
       THEN /\ pc' = "done" /\ attempt' = attempt
            /\ forwarded' = a.result /\ resp' = returned_resp
       ELSE LET tail == LoopTail(attempt, max_retries) IN
            IF tail = "sleep"
            THEN pc' = "sleep" /\ attempt' = attempt /\ UNCHANGED <<forwarded, resp>>
            ELSE IF tail = "attempt"
            THEN pc' = "attempt" /\ attempt' = attempt + 1 /\ UNCHANGED <<forwarded, resp>>
            ELSE /\ pc' = "done" /\ attempt' = attempt + 1
                 /\ forwarded' = MaxRetriesExceeded /\ resp' = exhausted_resp
    /\ UNCHANGED <<env, now, gw, job, validated, start_time, ctx, tokVars, pairVars>>

(* Gateway/rp_handler.py *)

RpSubmit(j) ==
    /\ gw = "rp"
    /\ LET r == rp_handler_route(j, now, env)
           first == rp_forward_start(env, r.ctx.payload, r.ctx.engine)
       IN  TakeUp(j, r, first, rp_handler_finish(first.result, r.ctx))

RpPost(o) ==
    /\ gw = "rp"
    /\ LET a == rp_attempt(o, attempt, env.maxRetries, MODEL_CONFIGS[ctx.engine].timeout)
       IN  LoopPass(o, a, env.maxRetries,
                    rp_handler_finish(a.result, ctx),
                    rp_handler_finish(MaxRetriesExceeded, ctx))

(* gateway/handler.py *)

GhSubmit(j) ==
    /\ gw = "gh"
    /\ TakeUp(j, gh_handler_route(j), Continue, EmptyDict)

GhPost(o) ==
    /\ gw = "gh"
    /\ LET a == gh_attempt(o, attempt, ctx.endpoint)
       IN  LoopPass(o, a, RETRY_ATTEMPTS,
                    gh_handler_finish(a.result, ctx),
                    gh_handler_finish(MaxRetriesExceeded, ctx))

\* time.sleep(wait_time), then the next pass of the loop
Sleep ==
    /\ pc = "sleep"
    /\ trace' = Append(trace, [ev |-> "sleep", secs |-> BackoffSeconds(attempt)])
    /\ attempt' = attempt + 1
    /\ pc' = "attempt"
    /\ UNCHANGED <<env, now, gw, job, posts, validated, start_time, ctx, lastOutcome,
                   allTimeouts, forwarded, resp, tokVars, pairVars>>

(* gateway/main.py: handler(event) and POST /synthesize make one POST *)

GmSubmit(j) ==
    /\ gw = "gm"
    /\ TakeUp(j, gm_handler_route(j, env), Continue, EmptyDict)

GmPost(o) ==
    /\ gw = "gm"
    /\ LoopPass(o, Return(o), 1, gm_handler_finish(o), EmptyDict)

Synthesize(j) ==
    /\ gw = "syn"
    /\ TakeUp(j, synthesize_route(j, env), Continue, EmptyDict)

SynPost(o) ==
    /\ gw = "syn"
    /\ LoopPass(o, Return(o), 1, synthesize_finish(o, ctx), EmptyDict)

\* GET /health: model_status of one model, its probe having come back with o
model_status(m, o, e) ==
    IF m \notin e.endpoints THEN "not_configured"
    ELSE IF o.kind # "http" THEN "unreachable"
    ELSE IF o.status = 200 THEN "healthy"
    ELSE "unhealthy"

\* mutant: the gateway reports itself by the state of its backends
health_check_Degraded(ok, oc, e) ==
    LET models == [kokkoro |-> model_status("kokkoro", ok, e),
                   chatterbox |-> model_status("chatterbox", oc, e)]
    IN  [gateway |-> IF \A m \in DOMAIN models : models[m] = "healthy"
                     THEN "healthy" ELSE "degraded",
         models |-> models]

\* GET /health: the value returned (line 75)
health_check(ok, oc, e) ==
    [gateway |-> "healthy",
     models |-> [kokkoro |-> model_status("kokkoro", ok, e),
                 chatterbox |-> model_status("chatterbox", oc, e)]]

\* the requests of gateway/main.py that take no body
GetRequest(path) == [method |-> "GET", path |-> path]

\* GET /health (lines 51-75): every configured endpoint is probed with a POST
\* of {"input": {"text": "health check"}}, kokkoro first; ok and oc are what
\* the probes come back with
GetHealth(ok, oc) ==
    /\ gw = "syn" /\ pc = "idle"
    /\ job' = GetRequest("/health")
    /\ start_time' = now
    /\ validated' = FALSE
    /\ attempt' = 0
    /\ ctx' = EmptyDict
    /\ forwarded' = EmptyDict
    /\ LET probes == (IF "kokkoro" \in env.endpoints THEN <<ok>> ELSE <<>>)
                     \o (IF "chatterbox" \in env.endpoints THEN <<oc>> ELSE <<>>)
       IN  /\ posts' = Len(probes)
           /\ trace' = [i \in 1..Len(probes) |-> [ev |-> "post", n |-> i]]
           /\ lastOutcome' = IF probes = <<>> THEN NoOutcome ELSE probes[Len(probes)]
           /\ allTimeouts' = \A i \in 1..Len(probes) : probes[i].kind = "timeout"
    /\ resp' = health_check(ok, oc, env)
    /\ pc' = "done"
    /\ UNCHANGED <<env, now, gw, tokVars, pairVars>>

\* GET /models (lines 45-49)
GetModels ==
    /\ gw = "syn" /\ pc = "idle"
    /\ job' = GetRequest("/models")
    /\ start_time' = now
    /\ validated' = FALSE
    /\ attempt' = 0
    /\ posts' = 0
    /\ ctx' = EmptyDict
    /\ forwarded' = EmptyDict
    /\ lastOutcome' = NoOutcome
    /\ allTimeouts' = TRUE
    /\ trace' = <<>>
    /\ resp' = [models |-> env.endpoints]
    /\ pc' = "done"
    /\ UNCHANGED <<env, now, gw, tokVars, pairVars>>

(* models/chatterbox/handler.py: handler(event) answers without any POST *)

CbSubmit(j) ==
    /\ gw = "cb"
    /\ TakeUp(j, cb_handler_route(j, now, env), Continue, EmptyDict)

\* the response goes back to the caller and the job is discarded
Deliver ==
    /\ pc = "done"
    /\ pc' = "idle"
    /\ job' = EmptyDict
    /\ attempt' = 0
    /\ posts' = 0
    /\ validated' = FALSE
    /\ start_time' = 0
    /\ ctx' = EmptyDict
    /\ lastOutcome' = NoOutcome
    /\ allTimeouts' = TRUE
    /\ trace' = <<>>
    /\ forwarded' = EmptyDict
    /\ resp' = EmptyDict
    /\ UNCHANGED <<env, now, gw, tokVars, pairVars>>

Next ==
    \/ \E j \in RpJobs(now, env) : RpSubmit(j)
    \/ \E o \in Outcomes : RpPost(o)
    \/ \E j \in GhJobs(now, env) : GhSubmit(j)
    \/ \E o \in Outcomes : GhPost(o)
    \/ Sleep
    \/ \E j \in GmJobs(now, env) : GmSubmit(j)
    \/ \E o \in Outcomes : GmPost(o)
    \/ \E j \in SynRequests : Synthesize(j)
    \/ \E o \in Outcomes : SynPost(o)
    \/ \E ok, oc \in Outcomes : GetHealth(ok, oc)
    \/ GetModels
    \/ \E j \in CbJobs(now, env) : CbSubmit(j)
    \/ Deliver
    \/ Tick

Spec == Init /\ [][Next]_vars

-----------------------------------------------------------------------------
(* Properties of the gateway handlers *)

\* the job in hand goes to the synthesis path of its handler
ProtectedJob ==
    /\ pc # "idle"
    /\ Get(job, "action", "None") \notin
         (CASE gw = "rp" -> {"health", "generate_token", "info", "models"}
            [] gw = "gh" -> {"health"}
            [] OTHER -> {"get_models", "health_check"})

\* the token string of the job is missing, malformed, signed with another key
\* or expired when the job was taken up
BadToken(t, at) ==
    \/ t.kind \in {"none", "garbage", "nonstr", "empty"}
    \/ t.kind = "jwt" /\ t.key # JWT_SECRET_KEY
    \/ t.kind = "jwt" /\ Has(t.claims, "exp") /\ t.claims.exp < at

\* C1: in Gateway/rp_handler.handler a backend POST is made only inside a job
\* whose token validate_jwt_token reported valid earlier in that job; a
\* protected job whose token is missing, malformed, wrongly signed or expired
\* makes no POST, whatever its text and engine.
C1_NoPostWithoutValidToken ==
    gw = "rp" =>
        /\ posts > 0 => validated
        /\ (ProtectedJob /\ BadToken(FirstToken(job, 1), start_time)) =>
              /\ posts = 0
              /\ pc = "done"
              /\ ~validated

C1_Witness ==
    /\ gw = "rp" /\ posts > 0 /\ validated
    /\ ~BadToken(FirstToken(job, 1), start_time)

\* C2: in gateway/handler.py and gateway/main.py (handler and POST
\* /synthesize) a backend call is made only for a request whose token was
\* validated before the call.
C2_BackendCallOnlyWithValidatedToken ==
    (gw \in {"gh", "gm", "syn"} /\ posts > 0) => validated

\* the engine name of the job: the field the handler selects the engine by
EngineName ==
    CASE gw = "rp" -> Get(job, "engine", "chatterbox")
      [] gw = "gh" -> Get(job, "engine", "kokkoro")
      [] OTHER -> Get(job, "model", "kokkoro")

\* the keys of the route table the handler looks the engine up in
RouteTable ==
    CASE gw = "rp" -> DOMAIN MODEL_CONFIGS
      [] gw = "gh" -> DOMAIN gh_endpoints
      [] OTHER -> env.endpoints

UnknownEngineJob ==
    /\ gw \in {"rp", "gh", "gm"}
    /\ ProtectedJob
    /\ gw = "rp" => validated
    /\ Lower(EngineName) \notin RouteTable

JobText == IF gw = "gm" THEN gm_text(job) ELSE Get(job, "text", "None")

ErrorNamesEngine ==
    /\ pc = "done"
    /\ Has(resp, "error")
    /\ InSeq(EngineName, resp.error) \/ InSeq(Lower(EngineName), resp.error)

\* C7 as stated: every synthesize job whose lower-cased engine name is no key
\* of the route table gets an error naming the engine, and no network call.
C7_UnknownEngineNamed ==
    UnknownEngineJob => (posts = 0 /\ trace = <<>> /\ ErrorNamesEngine)

\* C7 amended: a synthesize job whose lower-cased engine name (field engine
\* in rp_handler.py and gateway/handler.py, field model in gateway/main.py)
\* is no key of the route table makes no network call and no retry; when the
\* job carries a text the error names the engine, and without a text the
\* error is the missing-text error, which is checked first.
C7_UnknownEngineRejected ==
    UnknownEngineJob =>
        /\ posts = 0 /\ trace = <<>>
        /\ pc = "done" /\ Has(resp, "error")
        /\ IF Falsy(JobText)
           THEN resp.error \in {<<"Missing required parameter: 'text'">>,
                                <<"Missing 'text' parameter">>,
                                <<"Text field is required for TTS synthesis">>}
           ELSE ErrorNamesEngine

C7_Witness ==
    /\ UnknownEngineJob /\ gw = "gh" /\ ~Falsy(JobText)
    /\ resp.error = <<"Unsupported engine: ", "doesnotexist", ". Available: ">>
    /\ posts = 0

\* the configured maximum of the forwarder in use
MaxAttempts == IF gw = "rp" THEN env.maxRetries ELSE RETRY_ATTEMPTS

IsTimeoutError(err) ==
    \/ err = <<"Request timeout">>
    \/ Len(err) = 3 /\ err[1] = "Request timeout after "

\* C8: when every backend attempt of a job timed out, the forwarder has made
\* exactly MAX_RETRIES (RETRY_ATTEMPTS) POSTs when it returns, and it returns
\* success = False with a timeout error; for every configured maximum >= 1.
C8_AllTimeoutsExhaustRetries ==
    (gw \in {"rp", "gh"} /\ posts >= 1 /\ allTimeouts) =>
        /\ posts <= MaxAttempts
        /\ pc = "done" =>
             /\ posts = MaxAttempts
             /\ forwarded.success = FALSE
             /\ IsTimeoutError(forwarded.error)

C8_Witness ==
    /\ gw = "rp" /\ env.maxRetries # DefaultMaxRetries /\ env.maxRetries >= 2
    /\ pc = "done" /\ allTimeouts /\ posts = env.maxRetries
    /\ IsTimeoutError(forwarded.error)

\* the POST came back as a failure in the words of the specification:
\* timeout, connection error or a status outside 2xx
FailedNon2xx(o) ==
    \/ o.kind \in {"timeout", "connerr"}
    \/ o.kind = "http" /\ o.status \notin 200..299

\* the POST did not come back with status 200 and a JSON body
FailedNot200Json(o) ==
    ~(o.kind = "http" /\ o.status = 200 /\ ~Has(o.body, "notjson"))

\* the step is a POST of the retry loop coming back
PostStep == gw \in {"rp", "gh"} /\ posts' = posts + 1

C10_SequentialExponentialBackoff ==
    gw \in {"rp", "gh"} =>
        /\ \A i \in 1..Len(trace) :
              IF i % 2 = 1
              THEN trace[i] = [ev |-> "post", n |-> (i + 1) \div 2]
              ELSE trace[i] = [ev |-> "sleep", secs |-> 2 ^ ((i \div 2) - 1)]
        /\ trace # <<>> => Len(trace) <= 2 * MaxAttempts - 1
        /\ pc = "done" => Len(trace) % 2 = 1 \/ trace = <<>>
        /\ pc = "attempt" => Len(trace) % 2 = 0
        /\ pc = "sleep" => Len(trace) % 2 = 1 /\ (Len(trace) + 1) \div 2 < MaxAttempts

C10_Witness ==
    /\ gw = "rp" /\ pc = "done" /\ Len(trace) = 5
    /\ trace[2].secs = 1 /\ trace[4].secs = 2
    /\ ~forwarded.success

\* the job in hand ended on a POST that came back with HTTP 200 and a JSON body
AnsweredOkJson ==
    /\ gw = "rp" /\ pc = "done" /\ posts >= 1
    /\ lastOutcome.kind = "http" /\ lastOutcome.status = 200
    /\ ~Has(lastOutcome.body, "notjson")

AuthRejection ==
    /\ Has(resp, "error")
    /\ Get(resp, "auth_required", FALSE) = TRUE
    /\ resp.error[1] \in {"AUTHENTICATION REQUIRED: Please provide a valid JWT token",
                          "AUTHENTICATION FAILED: "}

\* C12: in rp_handler.handler, for every value in the token field, a job
\* answered because its token is missing or fails validation gets
\* auth_required = True and an error containing 'AUTHENTICATION'; a response
\* after a backend failure never carries them.
C12_AuthFailureDistinguishable ==
    (gw = "rp" /\ pc = "done" /\ ProtectedJob) =>
        /\ ~validate_jwt_token(FirstToken(job, 1), start_time, env).valid => AuthRejection
        /\ (Has(forwarded, "success") /\ ~forwarded.success) =>
              /\ ~Has(resp, "auth_required")
              /\ resp.error[1] = "TTS processing failed: "

\* C13: every response of rp_handler.handler carries a boolean 'success',
\* which is false whenever the response carries an 'error'.
C13_SuccessFieldAlways ==
    (gw = "rp" /\ pc = "done") =>
        /\ Has(resp, "success")
        /\ resp.success \in BOOLEAN
        /\ Has(resp, "error") => resp.success = FALSE

\* the forwarder returned on the last attempt's failure: a timeout, a
\* connection failure or an HTTP error status
RetriesExhausted ==
    /\ gw \in {"rp", "gh"} /\ pc = "done"
    /\ posts >= 1 /\ posts = MaxAttempts
    /\ Has(forwarded, "success") /\ ~forwarded.success
    /\ \/ lastOutcome.kind \in {"timeout", "connerr"}
       \/ lastOutcome.kind = "http" /\ lastOutcome.status # 200

\* the error handed back says how many attempts were made: as a field of
\* the forwarder's result or of the response, or as a piece of the message
StatesAttemptCount ==
    \/ \E k \in {"attempt", "attempts", "retries"} : Has(forwarded, k) \/ Has(resp, k)
    \/ InSeq(ToString(posts), forwarded.error)
    \/ InSeq(ToString(posts), resp.error)

\* C14: when all retries are exhausted, the structured error returned to
\* the caller states how many attempts were made, for a timeout, a
\* connection failure and an HTTP error alike.
C14_ExhaustedErrorStatesAttempts ==
    RetriesExhausted => StatesAttemptCount

\* the job in hand carries no token and has been answered
AnsweredNoToken == pc = "done" /\ FirstToken(job, 1).kind = "none"

\* C15 as stated: a job with action 'health' and no token gets status
\* 'healthy' from rp_handler.handler, gateway/handler.handler and
\* gateway/main.handler, and GET /health reports the gateway 'healthy',
\* whatever the backends do.
C15_HealthActionEverywhere ==
    AnsweredNoToken =>
        /\ (gw \in {"rp", "gh", "gm"} /\ Get(job, "action", "None") = "health")
              => Get(resp, "status", "None") = "healthy"
        /\ (gw = "syn" /\ job = GetRequest("/health")) => resp.gateway = "healthy"

\* C15 amended: a job without token gets a 'healthy' response whatever the
\* backends do when its action is 'health' in rp_handler.handler and
\* gateway/handler.handler (field status) and 'health_check' in
\* gateway/main.handler (field output.status); GET /health always reports
\* gateway 'healthy'.  gateway/main.handler does not know the action
\* 'health': it handles such a job as a synthesis job and never answers it
\* 'healthy'.
C15_HealthAlwaysHealthy ==
    AnsweredNoToken =>
        /\ (gw \in {"rp", "gh"} /\ Get(job, "action", "None") = "health")
              => resp.status = "healthy"
        /\ (gw = "gm" /\ Get(job, "action", "None") = "health_check")
              => resp.output.status = "healthy"
        /\ (gw = "gm" /\ Get(job, "action", "None") = "health")
              => /\ ~Has(resp, "status")
                 /\ Has(resp, "output") => ~Has(resp.output, "status")
        /\ (gw = "syn" /\ job = GetRequest("/health")) => resp.gateway = "healthy"

C15_Witness ==
    /\ AnsweredNoToken /\ gw = "syn" /\ job = GetRequest("/health")
    /\ resp.gateway = "healthy"
    /\ resp.models = [kokkoro |-> "unreachable", chatterbox |-> "unhealthy"]

\* the request in hand is a health request of its handler
HealthRequest ==
    /\ pc # "idle"
    /\ \/ gw \in {"rp", "gh"} /\ Get(job, "action", "None") = "health"
       \/ gw = "gm" /\ Get(job, "action", "None") = "health_check"
       \/ gw = "syn" /\ job = GetRequest("/health")

\* C16: handling a health request makes no backend network call, in
\* rp_handler.handler, gateway/handler.handler, gateway/main.handler and
\* GET /health of gateway/main.
C16_HealthMakesNoBackendCall ==
    HealthRequest => (posts = 0 /\ trace = <<>>)

\* C17: a generate_token job is served without token check and without
\* backend call: for a non-empty user_id the response has success = True and
\* the token issued for that user_id, whatever token field the job carries;
\* for a missing or empty user_id it is an error without token.
C17_GenerateTokenAlwaysServed ==
    (gw = "rp" /\ pc = "done" /\ Get(job, "action", "None") = "generate_token") =>
        /\ posts = 0 /\ trace = <<>> /\ ~validated
        /\ IF Has(job, "user_id") /\ job.user_id # ""
           THEN /\ resp.success = TRUE
                /\ resp.token.kind = "jwt"
                /\ resp.token.key = JWT_SECRET_KEY
                /\ resp.token.claims.sub = job.user_id
                /\ resp.user_id = job.user_id
                /\ ~Has(resp, "error")
           ELSE /\ Get(resp, "error", <<>>) = <<"Missing required parameter: 'user_id'">>
                /\ ~Has(resp, "token")
                /\ ~Has(resp, "success")

C17_Witness ==
    /\ gw = "rp" /\ pc = "done"
    /\ Get(job, "action", "None") = "generate_token"
    /\ Get(job, "user_id", "None") = "alice"
    /\ FirstToken(job, 1) = Garbage
    /\ resp.success = TRUE /\ resp.token.claims.user_id = "alice"

\* the request in hand asks for the list of models
ModelListRequest ==
    /\ pc = "done"
    /\ \/ gw = "rp" /\ Get(job, "action", "None") \in {"list_models", "models", "info"}
       \/ gw = "gm" /\ Get(job, "action", "None") = "get_models"
       \/ gw = "syn" /\ job = GetRequest("/models")

ReturnsModelList ==
    \/ Has(resp, "available_models")
    \/ Has(resp, "models")
    \/ Has(resp, "output") /\ Has(resp.output, "models")

\* C18: a model-listing request whose token was not successfully validated
\* is rejected with an authentication error and gets no model list.
C18_ModelListOnlyWithValidToken ==
    (ModelListRequest /\ ~validated) =>
        /\ ~ReturnsModelList
        /\ Has(resp, "error")

-----------------------------------------------------------------------------
(* Gateway/rp_handler.py, two jobs in one worker process: the host runtime
   may run handler() for a second job while the first is inside its retry
   loop (waiting for a POST or sleeping).  Each run of handler() has its own
   locals; the module-level names (the endpoint URLs, the JWT settings,
   MAX_RETRIES, MODEL_CONFIGS) are shared.  Each job comes with the answers
   its own backend calls get, and the clock does not move. *)

\* the backend's answers to one job's POSTs: the first, and every later one
PairScripts ==
    {[first |-> a, rest |-> b] :
        <<a, b>> \in {<<Http(200, BodySuccess), Http(200, BodySuccess)>>,
                     <<TimeoutOutcome, Http(200, BodySuccess)>>,
                     <<Http(500, NotJson), TimeoutOutcome>>,
                     <<ConnectionError, Http(200, BodyError)>>}}

ScriptAnswer(sc, n) == IF n = 1 THEN sc.first ELSE sc.rest

PairJobs(t_now, e) ==
    LET tok == generate_jwt_token("alice", EmptyDict, t_now, e) IN
    {[text |-> "hello", engine |-> "kokkoro", jwt_token |-> tok],
     [text |-> "good morning", voice |-> "chatterbox_calm", jwt_token |-> tok],
     [text |-> "hello", engine |-> "doesnotexist", jwt_token |-> tok],
     [text |-> "hello", engine |-> "kokkoro"],
     [action |-> "health"],
     [action |-> "generate_token", user_id |-> "alice"]}

PairEnvs ==
    {[DefaultEnv EXCEPT !.maxRetries = m] : m \in 1..MaxRetriesCfg}
    \cup {[DefaultEnv EXCEPT !.apiKey = FALSE]}

\* mutant: every job taken up uses up one of the retries the process has left
module_settings_after_RetryBudget(e) ==
    [e EXCEPT !.maxRetries = IF @ > 1 THEN @ - 1 ELSE @]

\* The module-level names after a step of handler() or call_tts_endpoint_v3,
\* e being their values before: neither function has a global statement,
\* assigns a module-level name or stores into MODEL_CONFIGS.
module_settings_after(e) == e

\* One POST of a backend call as the backend sees it
BackendCall(c) == [endpoint |-> c.endpoint, payload |-> c.payload]

\* handler(job) run to its end with nothing else running: its response and
\* its backend calls, the POSTs being answered by sc
RECURSIVE AloneLoop(_, _, _, _, _)
AloneLoop(c, sc, att, calls, e) ==
    LET o == ScriptAnswer(sc, Len(calls) + 1)
        a == rp_attempt(o, att, e.maxRetries, MODEL_CONFIGS[c.engine].timeout)
        sent == Append(calls, BackendCall(c))
    IN  IF a.ret
        THEN [resp |-> rp_handler_finish(a.result, c), calls |-> sent]
        ELSE IF LoopTail(att, e.maxRetries) = "exhausted"
        THEN [resp |-> rp_handler_finish(MaxRetriesExceeded, c), calls |-> sent]
        ELSE AloneLoop(c, sc, att + 1, sent, e)

HandledAlone(j, sc, t_now, e) ==
    LET r == rp_handler_route(j, t_now, e)
        first == rp_forward_start(e, r.ctx.payload, r.ctx.engine)
    IN  IF r.next = "respond"
        THEN [resp |-> r.resp, calls |-> <<>>]
        ELSE IF first.ret
        THEN [resp |-> rp_handler_finish(first.result, r.ctx), calls |-> <<>>]
        ELSE AloneLoop(r.ctx, sc, 0, <<>>, e)

\* a job handed to the worker process: nothing of handler() has run yet
QueuedWorker(j, sc, t_now, e) ==
    [job |-> j, script |-> sc, pc |-> "queued", attempt |-> 0, calls |-> <<>>,
     ctx |-> EmptyDict, resp |-> EmptyDict, overlapped |-> FALSE,
     alone |-> HandledAlone(j, sc, t_now, e)]

InitPair ==
    /\ env \in PairEnvs
    /\ startup = env
    /\ now = 1
    /\ held = NoToken
    /\ prov = NoProv
    /\ vres = NoVres
    /\ IdleJob
    /\ \E j1, j2 \in PairJobs(now, env) : \E s1, s2 \in PairScripts :
          workers = <<QueuedWorker(j1, s1, now, env), QueuedWorker(j2, s2, now, env)>>
    /\ client = NewClient

\* the other job is inside its handler() call
OtherRunning(w) == \E v \in DOMAIN workers : v # w /\ workers[v].pc \in {"attempt", "sleep"}

\* handler() up to the first POST (lines 159-388, 455-489)
HandlerStart(w) ==
    /\ workers[w].pc = "queued"
    /\ LET wk == workers[w]
           r == rp_handler_route(wk.job, now, env)
           first == rp_forward_start(env, r.ctx.payload, r.ctx.engine)
           ran == [wk EXCEPT !.overlapped = OtherRunning(w)]
       IN  workers' = [workers EXCEPT ![w] =
               IF r.next = "respond"
               THEN [ran EXCEPT !.pc = "done", !.resp = r.resp]
               ELSE IF first.ret
               THEN [ran EXCEPT !.pc = "done", !.ctx = r.ctx,
                                !.resp = rp_handler_finish(first.result, r.ctx)]
               ELSE [ran EXCEPT !.pc = "attempt", !.ctx = r.ctx]]
    /\ env' = module_settings_after(env)
    /\ UNCHANGED <<now, startup, client, tokVars, jobVars>>

\* a POST of the job's retry loop comes back (lines 491-548, 390-440)
ForwarderPost(w) ==
    /\ workers[w].pc = "attempt"
    /\ LET wk == workers[w]
           o == ScriptAnswer(wk.script, Len(wk.calls) + 1)
           a == rp_attempt(o, wk.attempt, env.maxRetries,
                           MODEL_CONFIGS[wk.ctx.engine].timeout)
           tail == LoopTail(wk.attempt, env.maxRetries)
           ran == [wk EXCEPT !.overlapped = @ \/ OtherRunning(w),
                             !.calls = Append(@, BackendCall(wk.ctx))]
       IN  workers' = [workers EXCEPT ![w] =
               IF a.ret
               THEN [ran EXCEPT !.pc = "done",
                                !.resp = rp_handler_finish(a.result, wk.ctx)]
               ELSE IF tail = "sleep"
               THEN [ran EXCEPT !.pc = "sleep"]
               ELSE IF tail = "attempt"
               THEN [ran EXCEPT !.attempt = @ + 1]
               ELSE [ran EXCEPT !.pc = "done", !.attempt = @ + 1,
                                !.resp = rp_handler_finish(MaxRetriesExceeded, wk.ctx)]]
    /\ env' = module_settings_after(env)
    /\ UNCHANGED <<now, startup, client, tokVars, jobVars>>

\* time.sleep(wait_time) of the job's retry loop is over (lines 540-543)
ForwarderSleep(w) ==
    /\ workers[w].pc = "sleep"
    /\ workers' = [workers EXCEPT ![w] =
           [@ EXCEPT !.pc = "attempt", !.attempt = @ + 1,
                     !.overlapped = @ \/ OtherRunning(w)]]
    /\ env' = module_settings_after(env)
    /\ UNCHANGED <<now, startup, client, tokVars, jobVars>>

NextPair ==
    \/ \E w \in DOMAIN workers : HandlerStart(w)
    \/ \E w \in DOMAIN workers : ForwarderPost(w)
    \/ \E w \in DOMAIN workers : ForwarderSleep(w)

SpecPair == InitPair /\ [][NextPair]_vars

\* calls is the beginning of the sequence full
StartsWith(full, calls) ==
    /\ Len(calls) <= Len(full)
    /\ \A i \in 1..Len(calls) : calls[i] = full[i]

-----------------------------------------------------------------------------
(* Gateway/rp_handler.py, one worker handling job after job.  Every POST
   answers or times out, and time.sleep returns: the retry loop's steps are
   taken when they can be. *)

InitRp ==
    /\ Init
    /\ gw = "rp"
    /\ env \in {[DefaultEnv EXCEPT !.maxRetries = m, !.apiKey = k] :
                   m \in 0..MaxRetriesCfg, k \in BOOLEAN}

NextRp ==
    \/ \E j \in RpJobs(now, env) : RpSubmit(j)
    \/ \E o \in Outcomes : RpPost(o)
    \/ Sleep
    \/ Deliver

SpecRp ==
    /\ InitRp /\ [][NextRp]_vars
    /\ WF_vars(\E o \in Outcomes : RpPost(o))
    /\ WF_vars(Sleep)

\* the response in hand is one of those handler() returns when nothing failed:
\* health, an issued token, the model list, or a synthesis success after the
\* backend reported success (or, without an API key, without a backend call)
UnfailedResponse ==
    \/ Has(resp, "status") /\ resp.status = "healthy"
    \/ Has(resp, "token") /\ Get(job, "action", "None") = "generate_token"
    \/ Has(resp, "available_models")
    \/ /\ Get(resp, "success", FALSE) = TRUE
       /\ validated
       /\ \/ posts = 0 /\ ~env.apiKey
          \/ /\ posts >= 1 /\ lastOutcome.kind = "http" /\ lastOutcome.status = 200
             /\ Get(lastOutcome.body, "success", FALSE) = TRUE

\* C21: every job given to rp_handler.handler eventually gets a response
\* dictionary, whatever its input fields and whatever the backend does (each
\* POST answering or timing out); a job that is not answered with one of the
\* responses of an unfailed job carries its failure in the field 'error'.
C21_EveryJobAnswered ==
    /\ [](pc = "done" => /\ DOMAIN resp # {}
                         /\ UnfailedResponse \/ Has(resp, "error"))
    /\ (pc \in {"attempt", "sleep"}) ~> (pc = "done")

\* every POST of a job timed out, more than once, and the job was answered
\* with an error
C21_Witness ==
    /\ gw = "rp" /\ pc = "done"
    /\ posts >= 2 /\ allTimeouts
    /\ Has(resp, "error") /\ resp.error[1] = "TTS processing failed: "

\* a POST of the job in hand has carried the payload to its backend
PayloadPosted == gw = "rp" /\ posts >= 1

\* C23: every token string rp_handler.handler accepts and forwards in the
\* payload field jwt_token is accepted by the backend's verify_jwt_token when
\* both are configured with the same JWT_SECRET_KEY, a token sent with a
\* 'Bearer ' prefix included.
C23_ForwardedTokenAcceptedByBackend ==
    PayloadPosted =>
        verify_jwt_token(ctx.payload.jwt_token, JWT_SECRET_KEY,
                         start_time, env.release).valid

\* the job in hand is an authenticated synthesize job with a text and a known
\* engine, handled to its end
AuthenticatedSynthesis ==
    /\ gw = "rp" /\ pc = "done"
    /\ ProtectedJob /\ validated
    /\ ~Falsy(JobText)
    /\ Lower(EngineName) \in RouteTable

\* C25: when RUNPOD_API_KEY is not configured, an authenticated synthesize job
\* with a known engine makes no network call and gets a success = true
\* response whose audio_url is the placeholder '/tmp/dummy_audio.mp3'.
C25_PlaceholderWithoutApiKey ==
    (AuthenticatedSynthesis /\ ~env.apiKey) =>
        /\ posts = 0 /\ trace = <<>>
        /\ Get(resp, "success", FALSE) = TRUE
        /\ ~Has(resp, "error")
        /\ Get(resp, "audio_url", "None") = "/tmp/dummy_audio.mp3"

C25_Witness ==
    /\ AuthenticatedSynthesis /\ ~env.apiKey
    /\ Lower(EngineName) = "kokkoro"
    /\ posts = 0
    /\ resp.success /\ resp.audio_url = "/tmp/dummy_audio.mp3"

\* the keys of the payload for an engine (lines 357-385)
PayloadKeys(engine) ==
    {"text", "voice", "speed", "format", "jwt_token", "model_type"}
    \cup (IF engine = "kokkoro" THEN {"language"}
          ELSE {"exaggeration", "cfg_weight", "audio_prompt_path"})

\* C26: the payload rp_handler POSTs to a backend has only the keys text,
\* voice, speed, format, jwt_token and model_type plus language (kokkoro) or
\* exaggeration, cfg_weight and audio_prompt_path (chatterbox); the text is
\* the job's text, and the POST goes to the endpoint configured for the
\* requested engine, never to the other engine's.
C26_PayloadSanitized ==
    PayloadPosted =>
        LET engine == Lower(EngineName) IN
        /\ DOMAIN ctx.payload \subseteq PayloadKeys(engine)
        /\ ctx.payload.text = job.text
        /\ ctx.endpoint = MODEL_CONFIGS[engine].endpoint
        /\ \A g \in DOMAIN MODEL_CONFIGS \ {engine} :
              ctx.endpoint # MODEL_CONFIGS[g].endpoint

\* a job with a key the payload has no place for was POSTed to kokkoro
C26_Witness ==
    /\ PayloadPosted
    /\ Has(job, "webhook") /\ Has(job, "engine") /\ ~Has(ctx.payload, "webhook")
    /\ ctx.endpoint = "KOKKORO_ENDPOINT"
    /\ ctx.payload.language = "ja"

\* the chatterbox model handler, JWT required, has answered the job in hand
CbAnswered == gw = "cb" /\ pc = "done" /\ env.requireJwt

CbAction == Get(job, "action", "synthesize")

\* C27: in the chatterbox model handler with JWT required, the actions
\* 'voices' and 'list_voices' are treated alike: a job without a token gets
\* the voice list under either name, as it gets the health response, while
\* every other action is executed only after verify_jwt_token succeeded.
C27_VoiceListingNamesAlike ==
    CbAnswered =>
        /\ CbAction = "health" => resp.status = "healthy"
        /\ CbAction \in {"voices", "list_voices"} => Has(resp, "voices")
        /\ (CbAction \notin {"health", "voices", "list_voices"} /\ ~validated)
              => /\ Has(resp, "error")
                 /\ resp.error[1] \in {"JWT token required", "JWT failed: "}

-----------------------------------------------------------------------------
(* Gateway/client_example.py: SecureTTSClient.  The client's clock counts
   minutes.  The server is whatever answers: the status of each answer is an
   input. *)

ClientUsers == {"alice", "bob"}
HttpStatuses == {200, 401, 503}

\* access_token of a login answer
AccessToken(username) == <<"token of ", username>>

\* what a method did: the object afterwards, the value returned, the requests
\* sent and the verdict lines printed
Did(s, ret, sent, printed) == [self |-> s, ret |-> ret, sent |-> sent, printed |-> printed]

is_token_expired(s, t) ==
    \/ s.token = "None" \/ s.token_expires_at = NoTime
    \/ t >= s.token_expires_at

clear_auth(s) == NoAuth

\* session.post / session.get send the session's headers
Request(s, method, path) ==
    [method |-> method, path |-> path, authorization |-> s.authorization]

\* login(username, password), the server answering with status
login(s, t, username, status) ==
    IF status = 200
    THEN Did([token |-> AccessToken(username), username |-> username,
              token_expires_at |-> t + TokenMinutes,
              authorization |-> <<"Bearer ", AccessToken(username)>>],
             TRUE, <<Request(s, "POST", "/auth/login")>>, <<>>)
    ELSE Did(clear_auth(s), FALSE, <<Request(s, "POST", "/auth/login")>>, <<>>)

\* generate_speech(text, model), the server answering a request with status
generate_speech(s, t, status) ==
    IF is_token_expired(s, t)
    THEN Did(clear_auth(s), "None", <<>>, <<>>)
    ELSE IF status = 200
    THEN Did(s, "result", <<Request(s, "POST", "/tts")>>, <<>>)
    ELSE IF status = 401
    THEN Did(clear_auth(s), "None", <<Request(s, "POST", "/tts")>>, <<>>)
    ELSE Did(s, "None", <<Request(s, "POST", "/tts")>>, <<>>)

\* list_models(), the server answering a request with status
list_models(s, t, status) ==
    IF is_token_expired(s, t)
    THEN Did(clear_auth(s), "None", <<>>, <<>>)
    ELSE IF status = 200
    THEN Did(s, "models", <<Request(s, "GET", "/models")>>, <<>>)
    ELSE IF status = 401
    THEN Did(clear_auth(s), "None", <<Request(s, "GET", "/models")>>, <<>>)
    ELSE Did(s, "None", <<Request(s, "GET", "/models")>>, <<>>)

Verdict(ret, endpoint) ==
    IF ret = "None"
    THEN <<"GOOD: ", endpoint, " endpoint properly rejected unauthorized access">>
    ELSE <<"SECURITY ISSUE: ", endpoint, " endpoint allowed unauthorized access!">>

\* test_security(), the server answering a request to /tts with tts_status
\* and one to /models with models_status
test_security(s, t, tts_status, models_status) ==
    LET saved_token == s.token
        saved_authorization == s.authorization
        g == generate_speech(clear_auth(s), t, tts_status)
        m == list_models(g.self, t, models_status)
        restored == [m.self EXCEPT
                        !.token = saved_token,
                        !.authorization = IF saved_authorization # "None"
                                          THEN saved_authorization ELSE @,
                        !.token_expires_at = IF saved_token # "None"
                                             THEN t + TokenMinutes ELSE @]
    IN  Did(restored, "None", g.sent \o m.sent,
            <<Verdict(g.ret, "TTS"), Verdict(m.ret, "Models")>>)

\* a method of the client has run
Called(name, answers, d) ==
    /\ client' = [client EXCEPT !.self = d.self, !.last = name,
                                !.before = client.self, !.answers = answers,
                                !.sent = d.sent, !.printed = d.printed]
    /\ UNCHANGED <<env, now, workers, startup, tokVars, jobVars>>

ClientLogin(u, st) ==
    Called("login", <<st>>, login(client.self, client.clock, u, st))

ClientGenerateSpeech(st) ==
    Called("generate_speech", <<st>>, generate_speech(client.self, client.clock, st))

ClientListModels(st) ==
    Called("list_models", <<st>>, list_models(client.self, client.clock, st))

ClientTestSecurity(tts_status, models_status) ==
    Called("test_security", <<tts_status, models_status>>,
           test_security(client.self, client.clock, tts_status, models_status))

\* the client's clock advances
ClientTick ==
    /\ client.clock + ClientClockStep <= MaxClientClock
    /\ client' = [client EXCEPT !.clock = @ + ClientClockStep]
    /\ UNCHANGED <<env, now, workers, startup, tokVars, jobVars>>

InitClient ==
    /\ env = DefaultEnv
    /\ now = 1
    /\ held = NoToken
    /\ prov = NoProv
    /\ vres = NoVres
    /\ IdleJob
    /\ NoWorkers

NextClient ==
    \/ \E u \in ClientUsers, st \in HttpStatuses : ClientLogin(u, st)
    \/ \E st \in HttpStatuses : ClientGenerateSpeech(st)
    \/ \E st \in HttpStatuses : ClientListModels(st)
    \/ \E st1, st2 \in HttpStatuses : ClientTestSecurity(st1, st2)
    \/ ClientTick

SpecClient == InitClient /\ [][NextClient]_vars

\* test_security has just returned
SecurityTested == client.last = "test_security"

\* C29: test_security really attempts unauthenticated access: it sends one
\* request without credentials to the TTS endpoint and one to the models
\* endpoint, and reports 'SECURITY ISSUE' whenever the server answered such a
\* request successfully, 'GOOD' only when the server rejected it.
C29_UnauthenticatedAccessAttempted ==
    SecurityTested =>
        /\ Len(client.sent) = 2
        /\ client.sent[1].path = "/tts" /\ client.sent[1].authorization = "None"
        /\ client.sent[2].path = "/models" /\ client.sent[2].authorization = "None"
        /\ \A i \in 1..2 :
              (client.printed[i][1] = "SECURITY ISSUE: ") <=> (client.answers[i] = 200)

\* C30: test_security leaves the client's authentication state as it found
\* it: token, username, token_expires_at and the session's Authorization
\* header are what they were before the call, for every prior state.
C30_AuthStateRestored ==
    SecurityTested => client.self = client.before

====
